---------------------------- MODULE Spec2Model ----------------------------
(***************************************************************************)
(* A model of the piet-wgpu draw context (vendor/piet-wgpu/src/context.rs) *)
(* and of the textured-quad pipeline (vendor/piet-wgpu/src/tex.rs).        *)
(*                                                                         *)
(* The draw context is modelled as a record c with the fields of           *)
(* WgpuRenderContext; every method is an operator from a context (and its  *)
(* arguments) to the context after the call, and every action of the       *)
(* specification is one call of one method.                                *)
(*                                                                         *)
(* Numbers: coordinates, matrix coefficients and depths are integers, all  *)
(* exactly representable in f32 and f64, so the casts `as f32`, `as f64`   *)
(* and round() of the source are exact on them.  Colours are packed        *)
(* 0xRRGGBBAA words; a formatted colour component is kept in units of      *)
(* 1/255, so that the f32 value 1.0 is the number 255.                     *)
(***************************************************************************)
EXTENDS Integers, Sequences, FiniteSets, TLC

\* ------------------------------------------------------------------ bounds

\* The cost of a context is the sum of: the primitive records pushed after
\* creation, the depth counter, the open save-points, the alpha-layer index
\* and the textured-quad records of the layer.  MaxOps bounds it in Spec and SpecDraw, MaxStackOps
\* in SpecStack, MaxScenarioOps in SpecScenario.
MaxOps == 2
MaxStackOps == 3

\* The bound on the cost in SpecScenario.
MaxScenarioOps == 4

\* The largest of the small instance batches handed to the textured-quad
\* pipeline in SpecTex.
MaxBatch == 40

\* The largest alpha-layer index the model sets or increments to.
MaxAlpha == 1

\* The messages sent into the proxy mainloop in one run.
MaxMsgs == 3
MaxSubtables == 2
MaxKernOps == 9

\* ------------------------------------------------------------- basic data

None == <<>>
Some(x) == <<x>>
IsSome(o) == o # <<>>
Unwrap(o) == o[1]

Last(s) == s[Len(s)]
Front(s) == SubSeq(s, 1, Len(s) - 1)

Max2(a, b) == IF a >= b THEN a ELSE b
Min2(a, b) == IF a <= b THEN a ELSE b

\* kurbo::Affine as its six coefficients [a, b, c, d, e, f].
Affine_default == <<1, 0, 0, 1, 0, 0>>

\* kurbo: impl Mul for Affine (self * other).
Affine_mul(s, o) ==
    << s[1] * o[1] + s[3] * o[2],
       s[2] * o[1] + s[4] * o[2],
       s[1] * o[3] + s[3] * o[4],
       s[2] * o[3] + s[4] * o[4],
       s[1] * o[5] + s[3] * o[6] + s[5],
       s[2] * o[5] + s[4] * o[6] + s[6] >>

\* kurbo::Rect as <<x0, y0, x1, y1>>.
Rect_new(x0, y0, x1, y1) ==
    << Min2(x0, x1), Min2(y0, y1), Max2(x0, x1), Max2(y0, y1) >>

\* kurbo: impl Add<Vec2> for Rect.
Rect_add(r, v) == Rect_new(r[1] + v[1], r[2] + v[2], r[3] + v[1], r[4] + v[2])

\* kurbo::Rect::intersect.
Rect_intersect(r, o) ==
    LET x0 == Max2(r[1], o[1])
        y0 == Max2(r[2], o[2])
        x1 == Min2(r[3], o[3])
        y1 == Min2(r[4], o[4])
    IN  Rect_new(x0, y0, Max2(x1, x0), Max2(y1, y0))

\* kurbo::Rect::inflate.
Rect_inflate(r, w, h) == Rect_new(r[1] - w, r[2] - h, r[3] + w, r[4] + h)

\* Shapes (kurbo::Shape implementors the model draws with).
RectShape(r) == [kind |-> "rect", rect |-> r]
CircleShape(cx, cy, rad) == [kind |-> "circle", center |-> <<cx, cy>>, radius |-> rad]
LineShape(p0, p1) == [kind |-> "line", p0 |-> p0, p1 |-> p1]
PathShape(pts) == [kind |-> "path", pts |-> pts]

\* Shape::as_rect, as_circle, as_line: Some only for the shape of that kind.
as_rect(shape) == IF shape.kind = "rect" THEN Some(shape.rect) ELSE None
as_circle(shape) == IF shape.kind = "circle" THEN Some(shape) ELSE None
as_line(shape) == IF shape.kind = "line" THEN Some(shape) ELSE None

\* ------------------------------------------------------------ input values

Translate10 == <<1, 0, 0, 1, 10, 10>>
Scale2 == <<2, 0, 0, 2, 0, 0>>
Transforms == {Translate10, Scale2}

RectA == <<0, 0, 20, 20>>
RectB == <<5, 5, 15, 15>>
Rect5 == <<0, 0, 5, 5>>
Circle1 == CircleShape(8, 8, 4)
Line1 == LineShape(<<0, 0>>, <<6, 0>>)
Path1 == PathShape(<< <<0, 0>>, <<6, 0>>, <<3, 4>> >>)

\* A rectangle above and to the left of the origin.
RectOff == <<-5, -5, 0, 0>>
ClipShapes == {RectShape(RectA), RectShape(RectB), Circle1}
OverrideShapes == {RectShape(RectA), Circle1}

\* piet::Color::Rgba32 words: an opaque red, opaque blue, half-transparent
\* green (the red channel is kept below 128 so that the word fits TLC's
\* 32-bit integers).
Rgba8(r, g, b, a) == ((r * 256 + g) * 256 + b) * 256 + a
Red == Rgba8(127, 0, 0, 255)
Blue == Rgba8(0, 0, 255, 255)
HalfGreen == Rgba8(0, 255, 0, 128)

\* The (shape, brush) pairs fill() and stroke() are called with, and the
\* brushes of blurred_rect().
FillInputs ==
    { <<RectShape(Rect5), Red>>, <<RectShape(Rect5), HalfGreen>>,
      <<Circle1, Red>>, <<Circle1, HalfGreen>>, <<Path1, Red>> }
StrokeInputs ==
    { <<RectShape(Rect5), HalfGreen>>, <<Line1, Red>>, <<Path1, HalfGreen>> }
BlurBrushes == {Red}

\* The f32 value 1.0 in the unit of formatted colour components.
One == 255

\* format_color: Color::as_rgba splits the word into its four bytes, each
\* divided by 255; components are kept in units of 1/255.
format_color(color) ==
    << (color \div 16777216) % 256,
       (color \div 65536) % 256,
       (color \div 256) % 256,
       color % 256 >>

\* -------------------------------------------------------------- the layer

\* VertexBuffers::new().
VertexBuffers_new == [vertices |-> <<>>, indices |-> <<>>]

TransparentLayer_new ==
    [quads |-> <<>>, blurred_quads |-> <<>>, triangles |-> VertexBuffers_new,
     texts |-> <<>>, color_texts |-> <<>>, atlas |-> <<>>]

Layer_new ==
    [quads |-> <<>>, triangles |-> VertexBuffers_new, transparent_layer |-> <<>>]

\* The lookup-or-insert every Layer method starts with:
\* if !transparent_layer.contains_key(&alpha_depth) { insert(alpha_depth, new) }.
\* The map is a function from the keys present to the buckets.
EnsureBucket(tl, alpha_depth) ==
    IF alpha_depth \in DOMAIN tl
    THEN tl
    ELSE [k \in (DOMAIN tl) \cup {alpha_depth} |->
             IF k = alpha_depth THEN TransparentLayer_new ELSE tl[k]]

HasBucket(l, k) == k \in DOMAIN l.transparent_layer

\* lyon's BuffersBuilder: the tessellator's vertices go through the vertex
\* constructor and are appended; its indices are offset by the number of
\* vertices the buffers held before.
RECURSIVE OffsetAll(_, _)
OffsetAll(idx, off) ==
    IF idx = <<>> THEN <<>>
    ELSE <<idx[1] + off>> \o OffsetAll(Tail(idx), off)

BuffersAppend(buf, verts, idx) ==
    [vertices |-> buf.vertices \o verts,
     indices |-> buf.indices \o OffsetAll(idx, Len(buf.vertices))]

\* Layer::get_triangles followed by the tessellation writing into the
\* buffers it returns.
get_triangles_append(l, transparent, alpha_depth, verts, idx) ==
    IF ~transparent
    THEN [l EXCEPT !.triangles = BuffersAppend(@, verts, idx)]
    ELSE LET tl == EnsureBucket(l.transparent_layer, alpha_depth)
         IN  [l EXCEPT !.transparent_layer =
                 [tl EXCEPT ![alpha_depth].triangles = BuffersAppend(@, verts, idx)]]

\* add_quad that tests the alpha with <= and so sends every quad to the
\* transparent bucket.
add_quad_always_transparent(l, rect, color, depth, clip, alpha_depth) ==
    LET quad == [rect |-> rect, color |-> color, depth |-> depth, clip |-> clip]
        tl == EnsureBucket(l.transparent_layer, alpha_depth)
    IN  [l EXCEPT !.transparent_layer =
            [tl EXCEPT ![alpha_depth].quads = Append(@, quad)]]

add_quad(l, rect, color, depth, clip, alpha_depth) ==
    LET quad == [rect |-> rect, color |-> color, depth |-> depth, clip |-> clip]
    IN  IF color[4] < One
        THEN LET tl == EnsureBucket(l.transparent_layer, alpha_depth)
             IN  [l EXCEPT !.transparent_layer =
                     [tl EXCEPT ![alpha_depth].quads = Append(@, quad)]]
        ELSE [l EXCEPT !.quads = Append(@, quad)]

add_blurred_quad(l, rect, blur_rect, blur_radius, color, depth, clip, alpha_depth) ==
    LET quad == [rect |-> rect, blur_rect |-> blur_rect, blur_radius |-> blur_radius,
                 color |-> color, depth |-> depth, clip |-> clip]
        tl == EnsureBucket(l.transparent_layer, alpha_depth)
    IN  [l EXCEPT !.transparent_layer =
            [tl EXCEPT ![alpha_depth].blurred_quads = Append(@, quad)]]

add_text(l, text, alpha_depth) ==
    LET tl == EnsureBucket(l.transparent_layer, alpha_depth)
    IN  [l EXCEPT !.transparent_layer =
            [tl EXCEPT ![alpha_depth].texts = @ \o text]]

add_color_text(l, text, alpha_depth) ==
    LET tl == EnsureBucket(l.transparent_layer, alpha_depth)
    IN  [l EXCEPT !.transparent_layer =
            [tl EXCEPT ![alpha_depth].color_texts = @ \o text]]

add_atlas(l, atlas, alpha_depth) ==
    LET tl == EnsureBucket(l.transparent_layer, alpha_depth)
    IN  [l EXCEPT !.transparent_layer =
            [tl EXCEPT ![alpha_depth].atlas = Append(@, atlas)]]

\* reset that empties the transparent buckets and keeps their keys.
Layer_reset_keeping_buckets(l) ==
    [l EXCEPT !.quads = <<>>,
              !.triangles = [vertices |-> <<>>, indices |-> <<>>],
              !.transparent_layer =
                  [k \in DOMAIN l.transparent_layer |-> TransparentLayer_new]]

Layer_reset(l) ==
    [l EXCEPT !.quads = <<>>,
              !.triangles = [vertices |-> <<>>, indices |-> <<>>],
              !.transparent_layer = <<>>]

\* ------------------------------------------------- the draw context: state

\* WgpuRenderContext::get_current_clip and current_clip.
get_current_clip(c) ==
    IF c.clip_stack = <<>> THEN None ELSE Some(Last(c.clip_stack))

current_clip(c) ==
    IF IsSome(get_current_clip(c)) THEN Unwrap(get_current_clip(c)) ELSE <<0, 0, 0, 0>>

pop_clip(c) ==
    IF c.clip_stack = <<>> THEN c ELSE [c EXCEPT !.clip_stack = Front(@)]

add_primitive(c) ==
    LET affine == c.cur_transform
        translate == <<affine[5], affine[6]>>
    IN  [c EXCEPT !.primitives =
            Append(@, [translate |-> translate, clip |-> 1, clip_rect |-> current_clip(c)])]

\* WgpuRenderContext::new, with the GL context in its default state.
Context_new ==
    add_primitive(
        [layer |-> Layer_new,
         cur_transform |-> Affine_default,
         state_stack |-> <<>>,
         clip_stack |-> <<>>,
         primitives |-> <<>>,
         depth |-> 0,
         alpha_depth |-> 0,
         ret |-> "none",
         gl |-> [blend |-> FALSE, blend_func |-> "ONE_ZERO", depth_mask |-> TRUE,
                 depth_test |-> FALSE],
         draw_calls |-> <<>>])

set_alpha_depth(c, alpha_depth) == [c EXCEPT !.alpha_depth = alpha_depth]

incr_alpha_depth(c) == [c EXCEPT !.alpha_depth = @ + 1]

\* add_clip_rect without the count of the clip on the active save-point.
add_clip_rect_uncounted(c, rect) ==
    add_primitive([c EXCEPT !.clip_stack = Append(@, rect)])

add_clip_rect(c, rect) ==
    LET c1 == [c EXCEPT !.clip_stack = Append(@, rect)]
        c2 == IF c1.state_stack # <<>>
              THEN [c1 EXCEPT !.state_stack[Len(c1.state_stack)].n_clip = @ + 1]
              ELSE c1
    IN  add_primitive(c2)

\* clip_override that clips to the bounding box of a shape that is not a
\* rectangle.
clip_override_bounding_box(c, shape) ==
    LET affine == c.cur_transform
        box == IF IsSome(as_rect(shape)) THEN Unwrap(as_rect(shape))
               ELSE IF IsSome(as_circle(shape))
               THEN << shape.center[1] - shape.radius, shape.center[2] - shape.radius,
                       shape.center[1] + shape.radius, shape.center[2] + shape.radius >>
               ELSE <<0, 0, 0, 0>>
    IN  add_clip_rect(c, Rect_add(box, <<affine[5], affine[6]>>))

clip_override(c, shape) ==
    IF IsSome(as_rect(shape))
    THEN LET affine == c.cur_transform
             rect == Rect_add(Unwrap(as_rect(shape)), <<affine[5], affine[6]>>)
         IN  add_clip_rect(c, rect)
    ELSE c

\* clip_nested pushing the new rectangle without intersecting it.
clip_nested_replacing(c, shape) == clip_override(c, shape)

clip_nested(c, shape) ==
    IF IsSome(get_current_clip(c))
    THEN LET current == Unwrap(get_current_clip(c))
         IN  IF IsSome(as_rect(shape))
             THEN LET affine == c.cur_transform
                      rect == Rect_add(Unwrap(as_rect(shape)), <<affine[5], affine[6]>>)
                  IN  add_clip_rect(c, Rect_intersect(rect, current))
             ELSE c
    ELSE clip_override(c, shape)

clip(c, shape) == clip_nested(c, shape)

\* save() pushes a State.  at_save is a history field the code does not have:
\* the transform, clip stack and alpha-layer index in effect at this save().
save(c) ==
    [c EXCEPT !.state_stack =
                  Append(@, [rel_transform |-> Affine_default,
                             transform |-> c.cur_transform,
                             n_clip |-> 0,
                             alpha_depth |-> c.alpha_depth,
                             at_save |-> [cur_transform |-> c.cur_transform,
                                          clip_stack |-> c.clip_stack,
                                          alpha_depth |-> c.alpha_depth]]),
              !.ret = "Ok"]

\* The pop loop of restore running once more than the save-point counted.
pop_clips_one_more(c, n) ==
    [c EXCEPT !.clip_stack = SubSeq(@, 1, Max2(0, Len(@) - (n + 1)))]

\* for _ in 0..n { self.pop_clip() }
RECURSIVE pop_clips(_, _)
pop_clips(c, n) == IF n = 0 THEN c ELSE pop_clips(pop_clip(c), n - 1)

\* restore that pushes no primitive record.
restore_silent(c) ==
    IF c.state_stack # <<>>
    THEN LET state == Last(c.state_stack)
             c1 == [c EXCEPT !.state_stack = Front(@),
                             !.cur_transform = state.transform,
                             !.alpha_depth = state.alpha_depth]
         IN  [pop_clips(c1, state.n_clip) EXCEPT !.ret = "Ok"]
    ELSE [c EXCEPT !.ret = "StackUnbalance"]

\* restore that pushes a primitive and reports Ok on an empty stack too.
restore_lenient(c) ==
    IF c.state_stack # <<>>
    THEN LET state == Last(c.state_stack)
             c1 == [c EXCEPT !.state_stack = Front(@),
                             !.cur_transform = state.transform,
                             !.alpha_depth = state.alpha_depth]
             c2 == pop_clips(c1, state.n_clip)
         IN  [add_primitive(c2) EXCEPT !.ret = "Ok"]
    ELSE [add_primitive(c) EXCEPT !.ret = "Ok"]

restore(c) ==
    IF c.state_stack # <<>>
    THEN LET state == Last(c.state_stack)
             c1 == [c EXCEPT !.state_stack = Front(@),
                             !.cur_transform = state.transform,
                             !.alpha_depth = state.alpha_depth]
             c2 == pop_clips(c1, state.n_clip)
         IN  [add_primitive(c2) EXCEPT !.ret = "Ok"]
    ELSE [c EXCEPT !.ret = "StackUnbalance"]

\* transform that carries the clip entries along with the translation.
transform_moving_clips(c, t) ==
    LET c1 == IF c.state_stack # <<>>
              THEN [c EXCEPT !.state_stack[Len(c.state_stack)].rel_transform =
                                 Affine_mul(@, t)]
              ELSE c
        c2 == [c1 EXCEPT !.cur_transform = Affine_mul(@, t),
                         !.clip_stack = [i \in DOMAIN @ |-> Rect_add(@[i], <<t[5], t[6]>>)]]
    IN  add_primitive(c2)

\* transform that leaves the save-point's relative transform alone.
transform_unrecorded(c, t) ==
    add_primitive([c EXCEPT !.cur_transform = Affine_mul(@, t)])

transform(c, t) ==
    LET c1 == IF c.state_stack # <<>>
              THEN [c EXCEPT !.state_stack[Len(c.state_stack)].rel_transform =
                                 Affine_mul(@, t)]
              ELSE c
        c2 == [c1 EXCEPT !.cur_transform = Affine_mul(@, t)]
    IN  add_primitive(c2)

\* ----------------------------------------------- the draw context: drawing

\* The tessellators are lyon's.  The model has a tessellation emit one vertex
\* per point of the outline and the indices 0 .. n-1; a stroke vertex's
\* normal is taken to be (0, 1).
RECURSIVE Iota(_)
Iota(n) == IF n = 0 THEN <<>> ELSE Append(Iota(n - 1), n - 1)

\* FillTessellator::tessellate_circle(center, radius): points of the circle.
tessellate_circle(center, radius) ==
    << <<center[1] + radius, center[2]>>,
       <<center[1], center[2] + radius>>,
       <<center[1] - radius, center[2]>> >>

\* The on-path positions the stroke tessellator visits, per branch of stroke().
StrokePoints(shape) ==
    IF IsSome(as_rect(shape))
    THEN LET r == Unwrap(as_rect(shape))
         IN  << <<r[1], r[2]>>, <<r[3], r[2]>>, <<r[3], r[4]>>, <<r[1], r[4]>> >>
    ELSE IF IsSome(as_line(shape))
    THEN << shape.p0, shape.p1 >>
    ELSE shape.pts

MkVertex(pos, color, depth, clp) ==
    [pos |-> pos, color |-> color, depth |-> depth, clip |-> clp]

stroke(c, shape, brush, width) ==
    LET affine == c.cur_transform
        c1 == [c EXCEPT !.depth = @ + 1]
        color == format_color(brush)
        depth == c1.depth
        clp == current_clip(c1)
        pts == StrokePoints(shape)
        verts == [i \in 1..Len(pts) |->
                     MkVertex(<< pts[i][1] + (0 * width) \div 2 + affine[5],
                                 pts[i][2] + (1 * width) \div 2 + affine[6] >>,
                              color, depth, clp)]
    IN  [c1 EXCEPT !.layer =
            get_triangles_append(@, color[4] < One, c1.alpha_depth, verts, Iota(Len(pts)))]

stroke_styled(c, shape, brush, width, style) == c

\* todo!() panics: the call does not return, and the unwinding leaves the
\* fields of the context as they were.
todo(c) == [c EXCEPT !.ret = "panicked"]

status(c) == todo(c)

gradient(c, gradient_) == todo(c)

draw_image_area(c, image, src_rect, dst_rect, interp) == todo(c)

capture_image_area(c, src_rect) == todo(c)

\* fill that records the rectangle without the translation of the transform.
fill_untranslated(c, shape, brush) ==
    LET c1 == [c EXCEPT !.depth = @ + 1]
        color == format_color(brush)
    IN  IF IsSome(as_rect(shape))
        THEN [c1 EXCEPT !.layer = add_quad(@, Unwrap(as_rect(shape)), color, c1.depth,
                                           current_clip(c), c1.alpha_depth)]
        ELSE c1

\* fill without the rectangle fast path: the rectangle's corners are
\* tessellated into the triangle mesh.
fill_tessellating(c, shape, brush) ==
    LET affine == c.cur_transform
        c1 == [c EXCEPT !.depth = @ + 1]
        color == format_color(brush)
        pts == IF IsSome(as_rect(shape)) THEN StrokePoints(shape)
               ELSE IF IsSome(as_circle(shape))
               THEN tessellate_circle(<< shape.center[1] + affine[5],
                                         shape.center[2] + affine[6] >>, shape.radius)
               ELSE <<>>
        verts == [i \in 1..Len(pts) |->
                     MkVertex(pts[i], color, c1.depth, current_clip(c))]
    IN  IF pts = <<>> THEN c1
        ELSE [c1 EXCEPT !.layer =
                 get_triangles_append(@, color[4] < One, c1.alpha_depth, verts,
                                      Iota(Len(pts)))]

fill(c, shape, brush) ==
    LET affine == c.cur_transform
        clp == current_clip(c)
        c1 == [c EXCEPT !.depth = @ + 1]
        depth == c1.depth
        color == format_color(brush)
    IN  IF IsSome(as_rect(shape))
        THEN LET rect == Rect_add(Unwrap(as_rect(shape)), <<affine[5], affine[6]>>)
             IN  [c1 EXCEPT !.layer = add_quad(@, rect, color, depth, clp, c1.alpha_depth)]
        ELSE IF IsSome(as_circle(shape))
        THEN LET circle == Unwrap(as_circle(shape))
                 pts == tessellate_circle(<< circle.center[1] + affine[5],
                                             circle.center[2] + affine[6] >>,
                                          circle.radius)
                 verts == [i \in 1..Len(pts) |-> MkVertex(pts[i], color, depth, clp)]
             IN  [c1 EXCEPT !.layer =
                     get_triangles_append(@, color[4] < One, c1.alpha_depth, verts,
                                          Iota(Len(pts)))]
        ELSE c1

\* fill_even_odd that fills with the non-zero rule instead of doing nothing.
fill_even_odd_filling(c, shape, brush) == fill(c, shape, brush)

fill_even_odd(c, shape, brush) == c

clear(c, region, color) == c

\* blurred_rect that hands the rect over without the falloff region.
blurred_rect_uninflated(c, rect, blur_radius, brush) ==
    LET c1 == [c EXCEPT !.depth = @ + 1]
        affine == c1.cur_transform
        rect1 == Rect_add(rect, <<affine[5], affine[6]>>)
    IN  [c1 EXCEPT !.layer =
            add_blurred_quad(@, rect1, rect1, blur_radius, format_color(brush),
                             c1.depth, current_clip(c1), c1.alpha_depth)]

\* blurred_rect that reuses the depth of the previous draw call.
blurred_rect_same_depth(c, rect, blur_radius, brush) ==
    LET affine == c.cur_transform
        rect2 == Rect_inflate(Rect_add(rect, <<affine[5], affine[6]>>),
                              3 * blur_radius, 3 * blur_radius)
        blur_rect == Rect_inflate(rect2, (-3) * blur_radius, (-3) * blur_radius)
    IN  [c EXCEPT !.layer =
            add_blurred_quad(@, rect2, blur_rect, blur_radius, format_color(brush),
                             c.depth, current_clip(c), c.alpha_depth)]

blurred_rect(c, rect, blur_radius, brush) ==
    LET c1 == [c EXCEPT !.depth = @ + 1]
        depth == c1.depth
        affine == c1.cur_transform
        clip_rect == current_clip(c1)
        rect1 == Rect_add(rect, <<affine[5], affine[6]>>)
        rect2 == Rect_inflate(rect1, 3 * blur_radius, 3 * blur_radius)
        blur_rect == Rect_inflate(rect2, (-3) * blur_radius, (-3) * blur_radius)
        color == format_color(brush)
    IN  [c1 EXCEPT !.layer =
            add_blurred_quad(@, rect2, blur_rect, blur_radius, color, depth, clip_rect,
                             c1.alpha_depth)]

\* The atlas cache is a collaborator: a lookup is Some(cache_rect) or None.
AtlasRect == <<0, 0, 16, 16>>
AtlasResults == {Some(AtlasRect), None}

\* draw_image that takes a fresh depth like the other drawing calls.
draw_image_counting(c, cached, rect) ==
    LET c1 == [c EXCEPT !.depth = @ + 1]
        affine == c.cur_transform
    IN  IF IsSome(cached)
        THEN LET tex == [rect |-> Rect_add(rect, <<affine[5], affine[6]>>),
                         tex_rect |-> Unwrap(cached),
                         color |-> <<0, 0, 0, 0>>,
                         depth |-> c1.depth,
                         clip |-> current_clip(c)]
             IN  [c1 EXCEPT !.layer = add_atlas(@, tex, c.alpha_depth)]
        ELSE c1

draw_image(c, cached, rect) ==
    LET depth == c.depth
        affine == c.cur_transform
        clp == current_clip(c)
    IN  IF IsSome(cached)
        THEN LET tex == [rect |-> << rect[1] + affine[5], rect[2] + affine[6],
                                     rect[3] + affine[5], rect[4] + affine[6] >>,
                         tex_rect |-> Unwrap(cached),
                         color |-> <<0, 0, 0, 0>>,
                         depth |-> depth,
                         clip |-> clp]
             IN  [c EXCEPT !.layer = add_atlas(@, tex, c.alpha_depth)]
        ELSE c

\* override_color is None or Some(colour).
draw_svg(c, cached, rect, override_color) ==
    LET depth == c.depth
        affine == c.cur_transform
        clp == current_clip(c)
    IN  IF IsSome(cached)
        THEN LET color == IF IsSome(override_color)
                          THEN format_color(Unwrap(override_color))
                          ELSE <<0, 0, 0, 0>>
                 tex == [rect |-> << rect[1] + affine[5], rect[2] + affine[6],
                                     rect[3] + affine[5], rect[4] + affine[6] >>,
                         tex_rect |-> Unwrap(cached),
                         color |-> color,
                         depth |-> depth,
                         clip |-> clp]
             IN  [c EXCEPT !.layer = add_atlas(@, tex, c.alpha_depth)]
        ELSE c

\* draw_text hands the context to the text layout (a collaborator), which
\* places its glyphs and gives them to Layer::add_text (single-channel mask
\* glyphs) or Layer::add_color_text (coloured glyphs).  The model's layout
\* holds one glyph of the given category.
GlyphRect == <<0, 0, 8, 12>>

draw_text(c, category, pos) ==
    LET affine == c.cur_transform
        glyph == [rect |-> Rect_add(GlyphRect, <<pos[1] + affine[5], pos[2] + affine[6]>>),
                  tex_rect |-> AtlasRect,
                  color |-> format_color(Blue),
                  depth |-> c.depth,
                  clip |-> current_clip(c)]
    IN  IF category = "mask"
        THEN [c EXCEPT !.layer = add_text(@, <<glyph>>, c.alpha_depth)]
        ELSE [c EXCEPT !.layer = add_color_text(@, <<glyph>>, c.alpha_depth)]

\* ------------------------------------------------------------------ finish

\* draw() that issues one draw call per record of the slice.
tex_Pipeline_draw_per_record(instances, max_depth, mask) ==
    IF instances = <<>>
    THEN [issued |-> FALSE, program |-> "none", uploads |-> 0, uploaded |-> 0,
          draws |-> 0, instance_count |-> 0, max_depth |-> max_depth]
    ELSE [issued |-> TRUE,
          program |-> IF mask THEN "mask_program" ELSE "program",
          uploads |-> Len(instances),
          uploaded |-> Len(instances),
          draws |-> Len(instances),
          instance_count |-> 1,
          max_depth |-> max_depth]

\* draw() without the early return on an empty slice.
tex_Pipeline_draw_always(instances, max_depth, mask) ==
    [issued |-> TRUE,
     program |-> IF mask THEN "mask_program" ELSE "program",
     uploads |-> 1,
     uploaded |-> Len(instances),
     draws |-> 1,
     instance_count |-> Len(instances),
     max_depth |-> max_depth]

\* tex::Pipeline::draw: nothing is bound, uploaded or drawn for an empty
\* slice; otherwise the slice is uploaded once and one instanced draw of
\* instances.len() instances is issued, with the mask program when mask.
\* uploads and draws count the buffer_sub_data and draw_arrays_instanced
\* calls, uploaded the records handed to buffer_sub_data.
tex_Pipeline_draw(instances, max_depth, mask) ==
    IF instances = <<>>
    THEN [issued |-> FALSE, program |-> "none", uploads |-> 0, uploaded |-> 0,
          draws |-> 0, instance_count |-> 0, max_depth |-> max_depth]
    ELSE [issued |-> TRUE,
          program |-> IF mask THEN "mask_program" ELSE "program",
          uploads |-> 1,
          uploaded |-> Len(instances),
          draws |-> 1,
          instance_count |-> Len(instances),
          max_depth |-> max_depth]

\* The quad, blurred-quad and triangle pipelines follow the same contract.
instanced_Pipeline_draw(instances, max_depth) ==
    IF instances = <<>>
    THEN [issued |-> FALSE, program |-> "none", uploads |-> 0, uploaded |-> 0,
          draws |-> 0, instance_count |-> 0, max_depth |-> max_depth]
    ELSE [issued |-> TRUE, program |-> "program", uploads |-> 1,
          uploaded |-> Len(instances), draws |-> 1,
          instance_count |-> Len(instances), max_depth |-> max_depth]

triangle_Pipeline_draw(buffers, max_depth) ==
    IF buffers.indices = <<>>
    THEN [issued |-> FALSE, program |-> "none", uploads |-> 0, uploaded |-> 0,
          draws |-> 0, instance_count |-> 0, max_depth |-> max_depth]
    ELSE [issued |-> TRUE, program |-> "program", uploads |-> 1,
          uploaded |-> Len(buffers.vertices), draws |-> 1,
          instance_count |-> Len(buffers.indices), max_depth |-> max_depth]

\* tex.rs: the instance buffer is allocated once, for MAX_INSTANCES records.
MAX_INSTANCES == 100000

create_instance_buffer(size) == [capacity |-> size]

tex_Pipeline_new == [instances |-> create_instance_buffer(MAX_INSTANCES)]

\* An instance slice of n textured-quad records.
Tex0 ==
    [rect |-> <<0, 0, 8, 12>>, tex_rect |-> <<0, 0, 16, 16>>,
     color |-> <<0, 0, 0, 0>>, depth |-> 0, clip |-> <<0, 0, 0, 0>>]

Instances(n) == [i \in 1..n |-> Tex0]

\* One pipeline invocation as Layer::draw makes it: which pipeline, on which
\* bucket (OpaqueBucket, or the alpha-layer index) and category, what the
\* pipeline did, and the GL state in force.
OpaqueBucket == -1

Invocation(gl, pipeline, bucket, cat, drawn) ==
    [pipeline |-> pipeline, bucket |-> bucket, cat |-> cat,
     issued |-> drawn.issued, program |-> drawn.program,
     uploads |-> drawn.uploads, uploaded |-> drawn.uploaded,
     draws |-> drawn.draws, instance_count |-> drawn.instance_count,
     max_depth |-> drawn.max_depth,
     blend |-> gl.blend, blend_func |-> gl.blend_func, depth_mask |-> gl.depth_mask]

\* depths.sort(): the keys in ascending order.
SetMin(S) == CHOOSE x \in S : \A y \in S : x <= y

\* The keys in descending order.
RECURSIVE SortedKeys_descending(_)
SortedKeys_descending(S) ==
    IF S = {} THEN <<>>
    ELSE LET m == CHOOSE x \in S : \A y \in S : x >= y
         IN  <<m>> \o SortedKeys_descending(S \ {m})

RECURSIVE SortedKeys(_)
SortedKeys(S) ==
    IF S = {} THEN <<>> ELSE <<SetMin(S)>> \o SortedKeys(S \ {SetMin(S)})

\* A bucket whose blurred quads are drawn without switching the blend
\* function back after the masked glyph run.
DrawBucket_blend_kept(gl, key, bucket, max_depth) ==
    LET gl1 == [gl EXCEPT !.blend = TRUE, !.blend_func = "SRC_ALPHA"]
        gl2 == [gl1 EXCEPT !.blend = TRUE, !.blend_func = "SRC1_COLOR"]
    IN  [gl |-> gl2,
         calls |->
           << Invocation(gl1, "quad", key, "quads",
                         instanced_Pipeline_draw(bucket.quads, max_depth)),
              Invocation(gl1, "triangle", key, "triangles",
                         triangle_Pipeline_draw(bucket.triangles, max_depth)),
              Invocation(gl1, "tex", key, "color_texts",
                         tex_Pipeline_draw(bucket.color_texts, max_depth, FALSE)),
              Invocation(gl1, "tex", key, "atlas",
                         tex_Pipeline_draw(bucket.atlas, max_depth, FALSE)),
              Invocation(gl2, "tex", key, "texts",
                         tex_Pipeline_draw(bucket.texts, max_depth, TRUE)),
              Invocation(gl2, "blur", key, "blurred_quads",
                         instanced_Pipeline_draw(bucket.blurred_quads, max_depth)) >>]

\* A bucket drawn with the blurred quads first instead of last.
DrawBucket_blur_first(gl, key, bucket, max_depth) ==
    LET gl1 == [gl EXCEPT !.blend = TRUE, !.blend_func = "SRC_ALPHA"]
        gl2 == [gl1 EXCEPT !.blend = TRUE, !.blend_func = "SRC1_COLOR"]
    IN  [gl |-> gl2,
         calls |->
           << Invocation(gl1, "blur", key, "blurred_quads",
                         instanced_Pipeline_draw(bucket.blurred_quads, max_depth)),
              Invocation(gl1, "quad", key, "quads",
                         instanced_Pipeline_draw(bucket.quads, max_depth)),
              Invocation(gl1, "triangle", key, "triangles",
                         triangle_Pipeline_draw(bucket.triangles, max_depth)),
              Invocation(gl1, "tex", key, "color_texts",
                         tex_Pipeline_draw(bucket.color_texts, max_depth, FALSE)),
              Invocation(gl1, "tex", key, "atlas",
                         tex_Pipeline_draw(bucket.atlas, max_depth, FALSE)),
              Invocation(gl2, "tex", key, "texts",
                         tex_Pipeline_draw(bucket.texts, max_depth, TRUE)) >>]

\* The body of `for depth in depths` of Layer::draw for one bucket: the
\* invocations it makes and the GL state it leaves.
DrawBucket(gl, key, bucket, max_depth) ==
    LET gl1 == [gl EXCEPT !.blend = TRUE, !.blend_func = "SRC_ALPHA"]
        gl2 == [gl1 EXCEPT !.blend = TRUE, !.blend_func = "SRC1_COLOR"]
        gl3 == [gl2 EXCEPT !.blend = TRUE, !.blend_func = "SRC_ALPHA"]
    IN  [gl |-> gl3,
         calls |->
           << Invocation(gl1, "quad", key, "quads",
                         instanced_Pipeline_draw(bucket.quads, max_depth)),
              Invocation(gl1, "triangle", key, "triangles",
                         triangle_Pipeline_draw(bucket.triangles, max_depth)),
              Invocation(gl1, "tex", key, "color_texts",
                         tex_Pipeline_draw(bucket.color_texts, max_depth, FALSE)),
              Invocation(gl1, "tex", key, "atlas",
                         tex_Pipeline_draw(bucket.atlas, max_depth, FALSE)),
              Invocation(gl2, "tex", key, "texts",
                         tex_Pipeline_draw(bucket.texts, max_depth, TRUE)),
              Invocation(gl3, "blur", key, "blurred_quads",
                         instanced_Pipeline_draw(bucket.blurred_quads, max_depth)) >>]

RECURSIVE DrawBuckets(_, _, _, _, _)
DrawBuckets(gl, calls, depths, tl, max_depth) ==
    IF depths = <<>>
    THEN [gl |-> gl, calls |-> calls]
    ELSE LET d == DrawBucket(gl, Head(depths), tl[Head(depths)], max_depth)
         IN  DrawBuckets(d.gl, calls \o d.calls, Tail(depths), tl, max_depth)

\* Layer::draw that returns without its closing disable(BLEND) and
\* depth_mask(true).
Layer_draw_unrestored(l, gl, max_depth) ==
    LET gl1 == [gl EXCEPT !.blend = FALSE, !.blend_func = "SRC_ALPHA"]
        opaque == << Invocation(gl1, "quad", OpaqueBucket, "quads",
                                instanced_Pipeline_draw(l.quads, max_depth)),
                     Invocation(gl1, "triangle", OpaqueBucket, "triangles",
                                triangle_Pipeline_draw(l.triangles, max_depth)) >>
        gl2 == [gl1 EXCEPT !.depth_mask = FALSE]
        d == DrawBuckets(gl2, opaque, SortedKeys(DOMAIN l.transparent_layer),
                         l.transparent_layer, max_depth)
    IN  [gl |-> d.gl, calls |-> d.calls]

\* Layer::draw: the invocations, in the order made, and the GL state left.
Layer_draw(l, gl, max_depth) ==
    LET gl1 == [gl EXCEPT !.blend = FALSE, !.blend_func = "SRC_ALPHA"]
        opaque == << Invocation(gl1, "quad", OpaqueBucket, "quads",
                                instanced_Pipeline_draw(l.quads, max_depth)),
                     Invocation(gl1, "triangle", OpaqueBucket, "triangles",
                                triangle_Pipeline_draw(l.triangles, max_depth)) >>
        gl2 == [gl1 EXCEPT !.depth_mask = FALSE]
        depths == SortedKeys(DOMAIN l.transparent_layer)
        d == DrawBuckets(gl2, opaque, depths, l.transparent_layer, max_depth)
    IN  [gl |-> [d.gl EXCEPT !.blend = FALSE, !.depth_mask = TRUE],
         calls |-> d.calls]

\* finish that empties the layer once it is drawn.
finish_resetting(c) ==
    LET gl1 == [c.gl EXCEPT !.depth_test = TRUE, !.depth_mask = TRUE]
        d == Layer_draw(c.layer, gl1, c.depth)
    IN  [c EXCEPT !.gl = d.gl, !.draw_calls = d.calls, !.ret = "Ok",
                  !.layer = Layer_reset(@)]

\* finish that hands the pipelines the depth of the first draw call.
finish_unit_depth(c) ==
    LET gl1 == [c.gl EXCEPT !.depth_test = TRUE, !.depth_mask = TRUE]
        d == Layer_draw(c.layer, gl1, Min2(c.depth, 1))
    IN  [c EXCEPT !.gl = d.gl, !.draw_calls = d.calls, !.ret = "Ok"]

finish(c) ==
    LET gl1 == [c.gl EXCEPT !.depth_test = TRUE, !.depth_mask = TRUE]
        d == Layer_draw(c.layer, gl1, c.depth)
    IN  [c EXCEPT !.gl = d.gl, !.draw_calls = d.calls, !.ret = "Ok"]

\* --------------------------------------------------------------- with_save

\* A closure handed to with_save: the calls it makes on the context, in
\* order, and the Result it returns.
Call(op, a, b) == [op |-> op, a |-> a, b |-> b]

Apply(c, o) ==
    CASE o.op = "save" -> save(c)
      [] o.op = "restore" -> restore(c)
      [] o.op = "transform" -> transform(c, o.a)
      [] o.op = "clip" -> clip(c, o.a)
      [] o.op = "set_alpha_depth" -> set_alpha_depth(c, o.a)
      [] o.op = "fill" -> fill(c, o.a, o.b)

RECURSIVE RunCalls(_, _)
RunCalls(c, calls) ==
    IF calls = <<>> THEN c ELSE RunCalls(Apply(c, Head(calls)), Tail(calls))

\* Result::and: the second result when the first is Ok, else the first.
Result_and(first, second) == IF first = "Ok" THEN second ELSE first

\* with_save written with `?`: f's error returns before the restore.
with_save_early_return(c, f) ==
    LET c1 == save(c)
        c2 == RunCalls(c1, f.calls)
    IN  IF f.result = "Ok" THEN restore(c2) ELSE [c2 EXCEPT !.ret = f.result]

with_save(c, f) ==
    LET c1 == save(c)
        c2 == RunCalls(c1, f.calls)
        c3 == restore(c2)
    IN  [c3 EXCEPT !.ret = Result_and(f.result, c3.ret)]

F_scoped ==
    [calls |-> << Call("transform", Translate10, 0), Call("clip", RectShape(RectA), 0) >>,
     result |-> "Ok"]
F_failing ==
    [calls |-> << Call("set_alpha_depth", 1, 0), Call("clip", RectShape(RectB), 0) >>,
     result |-> "InvalidInput"]
F_drawing ==
    [calls |-> << Call("set_alpha_depth", 1, 0),
                  Call("fill", RectShape(Rect5), HalfGreen) >>,
     result |-> "Ok"]
F_nested ==
    [calls |-> << Call("save", 0, 0), Call("transform", Scale2, 0), Call("restore", 0, 0) >>,
     result |-> "Ok"]
F_unbalanced ==
    [calls |-> << Call("transform", Scale2, 0), Call("restore", 0, 0) >>,
     result |-> "Ok"]
ClosureNames == {"scoped", "failing", "drawing", "nested", "unbalanced"}
Closure(name) ==
    CASE name = "scoped" -> F_scoped
      [] name = "failing" -> F_failing
      [] name = "drawing" -> F_drawing
      [] name = "nested" -> F_nested
      [] name = "unbalanced" -> F_unbalanced

\* ------------------------------------------------------ the proxy mainloop

\* RpcMessage and CoreRpc values: the variant, the id (0 for a notification,
\* which has none) and the payload.
Msg(kind, id, body) == [kind |-> kind, id |-> id, body |-> body]

RequestIds == {1, 2}

\* What a peer can send on the reader channel.
ReaderInputs ==
    { Msg("Request", i, "req") : i \in RequestIds }
    \cup { Msg("Notification", 0, "n") }
    \cup { Msg("Response", i, "resp") : i \in RequestIds }
    \cup { Msg("Error", i, "err") : i \in RequestIds }

\* What the core RPC handler's channel can carry to the forwarder thread.
CoreInputs == { Msg("Request", 1, "rpc"), Msg("Notification", 0, "rpc") }

\* Result<ProxyResponse, RpcError> as the request handler reports it.
HandlerResults == { [ok |-> TRUE, value |-> "resp"], [ok |-> FALSE, value |-> "e"] }

\* The callback that answers with the handler's own request number.
reply_callback_renumbered(id, hid, result) ==
    IF result.ok THEN Msg("Response", hid, result.value)
                 ELSE Msg("Error", hid, result.value)

\* The callback the reader thread hands to request_async for Request(id, _):
\* what it sends on the writer channel when called with result.  hid is the
\* number the proxy RPC handler gave the request, which the callback does not
\* see.
reply_callback(id, hid, result) ==
    IF result.ok THEN Msg("Response", id, result.value)
                 ELSE Msg("Error", id, result.value)

\* The forwarder thread's match on a CoreRpc message.
forward(msg) == Msg(msg.kind, msg.id, msg.body)

\* ------------------------------------------------------------ kerning

\* state_machine::state::START_OF_TEXT, attach_type::CURSIVE, the length of
\* StateMachineDriver::stack and the kerning value that resets a cross-stream
\* offset.
START_OF_TEXT == 0
CURSIVE == 2
StackLen == 8
ResetValue == -32768

\* Buffer directions.
Directions == {"LTR", "RTL", "TTB", "BTT"}
is_horizontal(direction) == direction \in {"LTR", "RTL"}
is_backward(direction) == direction \in {"RTL", "BTT"}
is_forward(direction) == ~is_backward(direction)

\* A glyph of the buffer (kerned: its mask has a bit of the kern mask) and
\* its position.
GlyphInfo(glyph, kerned) ==
    [glyph |-> glyph, kerned |-> kerned, cluster |-> glyph, unsafe_to_break |-> FALSE]

GlyphPosition_default ==
    [x_advance |-> 0, y_advance |-> 0, x_offset |-> 0, y_offset |-> 0,
     attach_type |-> 0, attach_chain |-> 0]

\* The buffer: glyphs and positions side by side, the cursor idx (from 0),
\* the operation budget max_ops and the scratch flag HAS_GPOS_ATTACHMENT.
Buffer_new(infos, direction, max_ops) ==
    [info |-> infos,
     pos |-> [i \in DOMAIN infos |-> GlyphPosition_default],
     idx |-> 0,
     max_ops |-> max_ops,
     direction |-> direction,
     has_gpos_attachment |-> FALSE]

ReverseSeq(q) == [i \in 1..Len(q) |-> q[Len(q) + 1 - i]]

\* Buffer::reverse: glyphs and positions, end for end.
Buffer_reverse(b) == [b EXCEPT !.info = ReverseSeq(@), !.pos = ReverseSeq(@)]

\* Buffer::next_glyph while positioning: the cursor moves on.
next_glyph(b) == [b EXCEPT !.idx = @ + 1]

RECURSIVE MinCluster(_, _, _)
MinCluster(infos, start, end) ==
    IF start + 1 >= end THEN infos[start + 1].cluster
    ELSE LET m == MinCluster(infos, start + 1, end)
         IN  IF infos[start + 1].cluster < m THEN infos[start + 1].cluster ELSE m

\* Buffer::unsafe_to_break(start, end), glyphs counted from 0: over two or
\* more glyphs, every glyph of the range that is not of the range's lowest
\* cluster is flagged.
unsafe_to_break(b, start, end) ==
    IF end - start < 2 THEN b
    ELSE [b EXCEPT !.info = [i \in DOMAIN @ |->
                                IF /\ start < i
                                   /\ i <= end
                                   /\ @[i].cluster # MinCluster(b.info, start, end)
                                THEN [@[i] EXCEPT !.unsafe_to_break = TRUE]
                                ELSE @[i]]]

\* Subtable::glyphs_kerning of the model's simple subtables: a pair in
\* ascending glyph order is kerned by 5, any other pair not at all.
glyphs_kerning(left, right) == IF left < right THEN 5 ELSE 0

\* machine_kern from glyph i on (i from 0).  No glyph of the model's buffers
\* is a mark, so the glyph SkippyIter finds after i is i + 1.
RECURSIVE machine_kern(_, _, _)
machine_kern(b, cross_stream, i) ==
    IF i >= Len(b.info) THEN b
    ELSE IF ~b.info[i + 1].kerned THEN machine_kern(b, cross_stream, i + 1)
    ELSE IF i + 1 >= Len(b.info) THEN machine_kern(b, cross_stream, i + 1)
    ELSE LET j == i + 1
             kern == glyphs_kerning(b.info[i + 1].glyph, b.info[j + 1].glyph)
             kern1 == kern \div 2
             kern2 == kern - kern1
             b1 == IF kern = 0 THEN b
                   ELSE IF is_horizontal(b.direction)
                   THEN IF cross_stream
                        THEN [b EXCEPT !.pos[j + 1].y_offset = kern,
                                       !.has_gpos_attachment = TRUE]
                        ELSE [b EXCEPT !.pos[i + 1].x_advance = @ + kern1,
                                       !.pos[j + 1].x_advance = @ + kern2,
                                       !.pos[j + 1].x_offset = @ + kern2]
                   ELSE IF cross_stream
                        THEN [b EXCEPT !.pos[j + 1].x_offset = kern,
                                       !.has_gpos_attachment = TRUE]
                        ELSE [b EXCEPT !.pos[i + 1].y_advance = @ + kern1,
                                       !.pos[j + 1].y_advance = @ + kern2,
                                       !.pos[j + 1].y_offset = @ + kern2]
         IN  machine_kern(IF kern = 0 THEN b1 ELSE unsafe_to_break(b1, i, j + 1),
                          cross_stream, j)

apply_simple_kerning(subtable, b) == machine_kern(b, subtable.cross_stream, 0)

\* StateMachineDriver.  used is a history field the code does not have: the
\* stack indices read or written so far.
StateMachineDriver_new ==
    [stack |-> [i \in 1..StackLen |-> 0], depth |-> 0, used |-> {}]

\* The kerning values of a state table from an entry's value offset on:
\* values[k] is the k-th, and past the end of the list there is none.
kerning(values, k) == IF k <= Len(values) THEN Some(values[k]) ELSE None

\* The kerning value v applied to the glyph at idx (from 0).
apply_value(b, idx, v, has_cross_stream) ==
    LET p == b.pos[idx + 1]
        kerned == b.info[idx + 1].kerned
    IN  IF is_horizontal(b.direction)
        THEN IF has_cross_stream
             THEN IF v = ResetValue
                  THEN [b EXCEPT !.pos[idx + 1].attach_type = 0,
                                 !.pos[idx + 1].attach_chain = 0,
                                 !.pos[idx + 1].y_offset = 0]
                  ELSE IF p.attach_type # 0
                  THEN [b EXCEPT !.pos[idx + 1].y_offset = @ + v,
                                 !.has_gpos_attachment = TRUE]
                  ELSE b
             ELSE IF kerned
                  THEN [b EXCEPT !.pos[idx + 1].x_advance = @ + v,
                                 !.pos[idx + 1].x_offset = @ + v]
                  ELSE b
        ELSE IF has_cross_stream
             THEN IF v = ResetValue
                  THEN [b EXCEPT !.pos[idx + 1].attach_type = 0,
                                 !.pos[idx + 1].attach_chain = 0,
                                 !.pos[idx + 1].x_offset = 0]
                  ELSE IF p.attach_type # 0
                  THEN [b EXCEPT !.pos[idx + 1].x_offset = @ + v,
                                 !.has_gpos_attachment = TRUE]
                  ELSE b
             ELSE IF kerned /\ p.y_offset = 0
                  THEN [b EXCEPT !.pos[idx + 1].y_advance = @ + v,
                                 !.pos[idx + 1].y_offset = @ + v]
                  ELSE b

\* while !last && driver.depth != 0 { .. }: value is the kerning value read
\* for this turn, k the place in the list of the next one.
RECURSIVE pop_values(_, _, _, _, _, _, _)
pop_values(driver, b, values, value, k, last, has_cross_stream) ==
    IF last \/ driver.depth = 0
    THEN [driver |-> driver, buffer |-> b]
    ELSE LET d1 == [driver EXCEPT !.depth = @ - 1, !.used = @ \cup {driver.depth - 1}]
             idx == d1.stack[d1.depth + 1]
             next == IF IsSome(kerning(values, k)) THEN Unwrap(kerning(values, k)) ELSE 0
         IN  IF idx >= Len(b.info)
             THEN pop_values(d1, b, values, next, k + 1, last, has_cross_stream)
             ELSE pop_values(d1, apply_value(b, idx, value - (value % 2), has_cross_stream),
                             values, next, k + 1, value % 2 # 0, has_cross_stream)

\* state_machine_transition whose push onto a full stack writes over the top.
state_machine_transition_overwriting(entry, has_cross_stream, values, driver, b) ==
    LET d1 == IF entry.push
              THEN IF driver.depth < StackLen
                   THEN [driver EXCEPT
                            !.stack = [i \in 1..StackLen |->
                                          IF i = driver.depth + 1 THEN b.idx ELSE @[i]],
                            !.depth = @ + 1,
                            !.used = @ \cup {driver.depth}]
                   ELSE [driver EXCEPT
                            !.stack = [i \in 1..StackLen |->
                                          IF i = StackLen THEN b.idx ELSE @[i]],
                            !.used = @ \cup {StackLen - 1}]
              ELSE driver
    IN  IF entry.offset /\ d1.depth # 0
        THEN IF IsSome(kerning(values, 1))
             THEN pop_values(d1, b, values, Unwrap(kerning(values, 1)), 2, FALSE,
                             has_cross_stream)
             ELSE [driver |-> [d1 EXCEPT !.depth = 0], buffer |-> b]
        ELSE [driver |-> d1, buffer |-> b]

\* state_machine_transition: values are the kerning values the machine holds
\* from the entry's value offset on.
state_machine_transition(entry, has_cross_stream, values, driver, b) ==
    LET d1 == IF entry.push
              THEN IF driver.depth < StackLen
                   THEN [driver EXCEPT
                            !.stack = [i \in 1..StackLen |->
                                          IF i = driver.depth + 1 THEN b.idx ELSE @[i]],
                            !.depth = @ + 1,
                            !.used = @ \cup {driver.depth}]
                   ELSE [driver EXCEPT !.depth = 0]
              ELSE driver
    IN  IF entry.offset /\ d1.depth # 0
        THEN IF IsSome(kerning(values, 1))
             THEN pop_values(d1, b, values, Unwrap(kerning(values, 1)), 2, FALSE,
                             has_cross_stream)
             ELSE [driver |-> [d1 EXCEPT !.depth = 0], buffer |-> b]
        ELSE [driver |-> d1, buffer |-> b]

\* An entry of a state table, and Entry::new_state read as a state: the
\* model numbers the states by the value their entries carry.
Entry(push, advance, offset, new_state) ==
    [push |-> push, advance |-> advance, offset |-> offset, new_state |-> new_state]

machine_new_state(n) == n

\* The turn of the loop without the budget's forced advance.
machine_iteration_unforced(entry, end_entry, values, has_cross_stream, driver, state, b) ==
    LET len == Len(b.info)
        stay == [buffer |-> b, driver |-> driver, state |-> state, exit |-> TRUE]
    IN  IF ~IsSome(entry) THEN stay
        ELSE
        LET e == Unwrap(entry)
            b1 == IF /\ state # START_OF_TEXT
                     /\ b.idx # 0
                     /\ b.idx < len
                     /\ (e.offset \/ ~(e.new_state = START_OF_TEXT /\ ~e.advance))
                  THEN unsafe_to_break(b, b.idx - 1, b.idx + 1)
                  ELSE b
        IN  IF b.idx + 2 <= len /\ ~IsSome(end_entry)
            THEN [stay EXCEPT !.buffer = b1]
            ELSE
            LET b2 == IF b.idx + 2 <= len /\ Unwrap(end_entry).offset
                      THEN unsafe_to_break(b1, b.idx, b.idx + 2)
                      ELSE b1
                t == state_machine_transition(e, has_cross_stream, values, driver, b2)
                state1 == machine_new_state(e.new_state)
                b3 == [t.buffer EXCEPT !.max_ops = @ - 1]
            IN  IF t.buffer.idx >= len
                THEN [buffer |-> t.buffer, driver |-> t.driver, state |-> state1,
                      exit |-> TRUE]
                ELSE [buffer |-> IF e.advance
                                 THEN next_glyph(b3) ELSE b3,
                      driver |-> t.driver, state |-> state1, exit |-> FALSE]

\* One turn of the loop of apply_state_machine_kerning.  entry and end_entry
\* are what machine.entry answers for the class at the cursor and for
\* END_OF_TEXT (None: the table has no such entry), values the kerning
\* values at the entry's value offset.  exit: the turn left the loop.
machine_iteration(entry, end_entry, values, has_cross_stream, driver, state, b) ==
    LET len == Len(b.info)
        stay == [buffer |-> b, driver |-> driver, state |-> state, exit |-> TRUE]
    IN  IF ~IsSome(entry) THEN stay
        ELSE
        LET e == Unwrap(entry)
            b1 == IF /\ state # START_OF_TEXT
                     /\ b.idx # 0
                     /\ b.idx < len
                     /\ (e.offset \/ ~(e.new_state = START_OF_TEXT /\ ~e.advance))
                  THEN unsafe_to_break(b, b.idx - 1, b.idx + 1)
                  ELSE b
        IN  IF b.idx + 2 <= len /\ ~IsSome(end_entry)
            THEN [stay EXCEPT !.buffer = b1]
            ELSE
            LET b2 == IF b.idx + 2 <= len /\ Unwrap(end_entry).offset
                      THEN unsafe_to_break(b1, b.idx, b.idx + 2)
                      ELSE b1
                t == state_machine_transition(e, has_cross_stream, values, driver, b2)
                state1 == machine_new_state(e.new_state)
                b3 == [t.buffer EXCEPT !.max_ops = @ - 1]
            IN  IF t.buffer.idx >= len
                THEN [buffer |-> t.buffer, driver |-> t.driver, state |-> state1,
                      exit |-> TRUE]
                ELSE [buffer |-> IF e.advance \/ b3.max_ops <= 0
                                 THEN next_glyph(b3) ELSE b3,
                      driver |-> t.driver, state |-> state1, exit |-> FALSE]

\* A subtable of the kern table: is_variable, is_horizontal,
\* has_state_machine, whether state_machine() can read the machine, and
\* has_cross_stream.
Subtable(variable, horizontal, state_machine, parses, cross_stream) ==
    [variable |-> variable, horizontal |-> horizontal,
     state_machine |-> state_machine, parses |-> parses,
     cross_stream |-> cross_stream]

\* The body of kern's loop for subtable s, up to the call of
\* apply_state_machine_kerning or through the end of the body.  k holds the
\* locals of kern and what it was called with.
kern_subtable(s, k) ==
    LET reverse == is_backward(k.buffer.direction)
        attach == ~k.seen_cross_stream /\ s.cross_stream
        b1 == IF attach
              THEN [k.buffer EXCEPT !.pos = [i \in DOMAIN @ |->
                       [@[i] EXCEPT !.attach_type = CURSIVE,
                                    !.attach_chain =
                                        IF is_forward(k.buffer.direction) THEN -1 ELSE 1]]]
              ELSE k.buffer
        b2 == IF reverse THEN Buffer_reverse(b1) ELSE b1
        k2 == [k EXCEPT !.seen_cross_stream = @ \/ attach]
    IN  IF s.variable THEN k
        ELSE IF is_horizontal(k.buffer.direction) # s.horizontal THEN k
        ELSE IF s.state_machine
        THEN IF s.parses
             THEN [k2 EXCEPT !.buffer = [b2 EXCEPT !.idx = 0],
                             !.driver = StateMachineDriver_new,
                             !.state = START_OF_TEXT,
                             !.subtable = s,
                             !.pc = "machine"]
             ELSE [k2 EXCEPT !.buffer = IF reverse THEN Buffer_reverse(b2) ELSE b2]
        ELSE IF ~k.plan.requested_kerning
        THEN [k2 EXCEPT !.buffer = b2]
        ELSE LET b3 == apply_simple_kerning(s, b2)
             IN  [k2 EXCEPT !.buffer = IF reverse THEN Buffer_reverse(b3) ELSE b3]

\* ------------------------------------------------------- the specification

\* The fields of the draw context, the result of its last call (ret), the GL
\* state (gl) and the pipeline invocations of finish() (draw_calls); and,
\* for the textured-quad pipeline taken alone, the number of records of the
\* instance slice handed to it (tex_batch) and what its draw() did
\* (tex_result, None before the call).
VARIABLES layer, cur_transform, state_stack, clip_stack, primitives, depth,
          alpha_depth, ret, gl, draw_calls, tex_batch, tex_result

\* The proxy mainloop: the reader channel (reader_q), the messages the reader
\* thread has taken from it (received), the proxy RPC handler's channel
\* (proxy_q), its callbacks by request number (pending), its next request
\* number (next_id) and the requests the dispatcher is working on (handling),
\* the core RPC handler's channel (core_q) and the responses handed to it
\* (core_handled), everything sent on the writer channel (writer_q), the
\* results the request handler has reported (reported), and the number of
\* messages sent into the mainloop so far (n_sent).
VARIABLES reader_q, received, proxy_q, pending, next_id, handling, core_q,
          core_handled, writer_q, reported, n_sent

\* The lifetime of the proxy mainloop: whether a sender of the reader channel
\* is still held outside mainloop (peer_holds), whether the reader thread is
\* in its receive loop or past it (reader_pc), and whether mainloop is in
\* proxy_rpc.mainloop or has returned and dropped its parameters (main_pc).
VARIABLES peer_holds, reader_pc, main_pc

\* A call of kern: the buffer and the plan it was called with, the subtables
\* its loop has still to visit, its local seen_cross_stream, and where it is
\* (kern_pc: "idle" before any call, "subtables" at the head of its loop,
\* "machine" inside the loop of apply_state_machine_kerning, "done" once it
\* has returned); inside apply_state_machine_kerning, the subtable, the
\* driver and the state.  kern_at_call is a history variable: the glyphs of
\* the buffer, in order, when kern was called.
VARIABLES kern_buffer, kern_plan, kern_subtables, kern_seen_cross_stream, kern_pc,
          kern_in_subtable, kern_driver, kern_state, kern_at_call

ctx_vars == << layer, cur_transform, state_stack, clip_stack, primitives, depth,
               alpha_depth, ret, gl, draw_calls >>

tex_vars == << tex_batch, tex_result >>

proxy_vars == << reader_q, received, proxy_q, pending, next_id, handling, core_q,
                 core_handled, writer_q, reported, n_sent >>

life_vars == << peer_holds, reader_pc, main_pc >>

kern_vars == << kern_buffer, kern_plan, kern_subtables, kern_seen_cross_stream,
               kern_pc, kern_in_subtable, kern_driver, kern_state, kern_at_call >>

vars == << ctx_vars, tex_vars, proxy_vars, life_vars, kern_vars >>

\* The context the variables hold.
Ctx ==
    [layer |-> layer, cur_transform |-> cur_transform, state_stack |-> state_stack,
     clip_stack |-> clip_stack, primitives |-> primitives, depth |-> depth,
     alpha_depth |-> alpha_depth, ret |-> ret, gl |-> gl, draw_calls |-> draw_calls]

Becomes(n) ==
    /\ layer' = n.layer
    /\ cur_transform' = n.cur_transform
    /\ state_stack' = n.state_stack
    /\ clip_stack' = n.clip_stack
    /\ primitives' = n.primitives
    /\ depth' = n.depth
    /\ alpha_depth' = n.alpha_depth
    /\ ret' = n.ret
    /\ gl' = n.gl
    /\ draw_calls' = n.draw_calls
    /\ UNCHANGED << tex_vars, proxy_vars, life_vars, kern_vars >>

RECURSIVE SumTex(_, _)
SumTex(tl, keys) ==
    IF keys = {} THEN 0
    ELSE LET k == SetMin(keys)
         IN  Len(tl[k].texts) + Len(tl[k].color_texts) + Len(tl[k].atlas)
             + SumTex(tl, keys \ {k})

\* What the bounds MaxOps and MaxStackOps limit.
Cost(c) ==
    (Len(c.primitives) - 1) + c.depth + Len(c.state_stack) + c.alpha_depth
    + SumTex(c.layer.transparent_layer, DOMAIN c.layer.transparent_layer)

Step(n) == Becomes(n)

InBudget == Cost(Ctx) <= MaxOps

InStackBudget == Cost(Ctx) <= MaxStackOps

InitContext ==
    /\ layer = Context_new.layer
    /\ cur_transform = Context_new.cur_transform
    /\ state_stack = Context_new.state_stack
    /\ clip_stack = Context_new.clip_stack
    /\ primitives = Context_new.primitives
    /\ depth = Context_new.depth
    /\ alpha_depth = Context_new.alpha_depth
    /\ ret = Context_new.ret
    /\ gl = Context_new.gl
    /\ draw_calls = Context_new.draw_calls

\* mainloop has made its handlers and spawned its threads; nothing has been
\* sent yet.
InitProxy ==
    /\ reader_q = <<>>
    /\ received = <<>>
    /\ proxy_q = <<>>
    /\ pending = {}
    /\ next_id = 0
    /\ handling = {}
    /\ core_q = <<>>
    /\ core_handled = <<>>
    /\ writer_q = <<>>
    /\ reported = <<>>
    /\ n_sent = 0

\* mainloop is running, its reader thread is in its loop, and a peer holds a
\* sender of the reader channel.
InitLife ==
    /\ peer_holds = TRUE
    /\ reader_pc = "loop"
    /\ main_pc = "running"

\* The subtable kinds kern tells apart: variable, vertical simple, horizontal
\* state machine, one whose machine cannot be read, horizontal simple, and a
\* cross-stream state machine.
Subtables ==
    { Subtable(TRUE, TRUE, FALSE, FALSE, FALSE),
      Subtable(FALSE, FALSE, FALSE, FALSE, FALSE),
      Subtable(FALSE, TRUE, TRUE, TRUE, FALSE),
      Subtable(FALSE, TRUE, TRUE, FALSE, FALSE),
      Subtable(FALSE, TRUE, FALSE, FALSE, FALSE),
      Subtable(FALSE, TRUE, TRUE, TRUE, TRUE) }

\* No call of kern yet.
InitKernIdle ==
    /\ kern_buffer = Buffer_new(<<>>, "LTR", 0)
    /\ kern_plan = [requested_kerning |-> FALSE]
    /\ kern_subtables = <<>>
    /\ kern_seen_cross_stream = FALSE
    /\ kern_pc = "idle"
    /\ kern_in_subtable = Subtable(FALSE, TRUE, FALSE, FALSE, FALSE)
    /\ kern_driver = StateMachineDriver_new
    /\ kern_state = START_OF_TEXT
    /\ kern_at_call = <<>>

Init ==
    /\ InitContext
    /\ tex_batch = 0
    /\ tex_result = None
    /\ InitProxy
    /\ InitLife
    /\ InitKernIdle

\* The caller issues the calls of one frame and then finish(): once
\* finish() has drawn the frame, the frame's context takes no further call
\* but finish().  A call that panicked ends the frame: nothing is called
\* after it.
InFrame == draw_calls = <<>> /\ ret # "panicked"

Save == InFrame /\ Step(save(Ctx))

Restore == InFrame /\ Step(restore(Ctx))

Transform(t) == InFrame /\ Step(transform(Ctx, t))

Clip(shape) == InFrame /\ Step(clip(Ctx, shape))

ClipOverride(shape) == InFrame /\ Step(clip_override(Ctx, shape))

SetAlphaDepth(k) == InFrame /\ Step(set_alpha_depth(Ctx, k))

IncrAlphaDepth == InFrame /\ alpha_depth < MaxAlpha /\ Step(incr_alpha_depth(Ctx))

Fill(shape, brush) == InFrame /\ Step(fill(Ctx, shape, brush))

Stroke(shape, brush) == InFrame /\ Step(stroke(Ctx, shape, brush, 2))

StrokeStyled == InFrame /\ Step(stroke_styled(Ctx, Path1, Red, 2, "dashed"))

FillEvenOdd == InFrame /\ Step(fill_even_odd(Ctx, Path1, Red))

Clear == InFrame /\ Step(clear(Ctx, None, Red))

BlurredRect(brush) == InFrame /\ Step(blurred_rect(Ctx, Rect5, 1, brush))

DrawImage(cached) == InFrame /\ Step(draw_image(Ctx, cached, Rect5))

DrawSvg(cached) == InFrame /\ Step(draw_svg(Ctx, cached, Rect5, Some(HalfGreen)))

DrawText(category) == InFrame /\ Step(draw_text(Ctx, category, <<1, 1>>))

Finish == ret # "panicked" /\ Step(finish(Ctx))

Status == InFrame /\ Step(status(Ctx))

Gradient == InFrame /\ Step(gradient(Ctx, "linear"))

DrawImageArea == InFrame /\ Step(draw_image_area(Ctx, "image", Rect5, RectB, "bilinear"))

CaptureImageArea == InFrame /\ Step(capture_image_area(Ctx, Rect5))

WithSave(name) == InFrame /\ Step(with_save(Ctx, Closure(name)))

\* Every call of the draw context, one input each.
Next ==
    \/ Save /\ InBudget'
    \/ Restore /\ InBudget'
    \/ \E t \in {Translate10} : Transform(t) /\ InBudget'
    \/ \E shape \in {RectShape(RectA)} : Clip(shape) /\ InBudget'
    \/ \E shape \in {RectShape(RectB)} : ClipOverride(shape) /\ InBudget'
    \/ \E k \in 0..MaxAlpha : SetAlphaDepth(k) /\ InBudget'
    \/ IncrAlphaDepth /\ InBudget'
    \/ \E d \in {<<RectShape(Rect5), HalfGreen>>} : Fill(d[1], d[2]) /\ InBudget'
    \/ \E d \in {<<Line1, Red>>} : Stroke(d[1], d[2]) /\ InBudget'
    \/ StrokeStyled /\ InBudget'
    \/ FillEvenOdd /\ InBudget'
    \/ Clear /\ InBudget'
    \/ \E brush \in BlurBrushes : BlurredRect(brush) /\ InBudget'
    \/ \E cached \in AtlasResults : DrawImage(cached) /\ InBudget'
    \/ \E cached \in AtlasResults : DrawSvg(cached) /\ InBudget'
    \/ \E category \in {"mask"} : DrawText(category) /\ InBudget'
    \/ Finish /\ InBudget'
    \/ \E name \in {"failing"} : WithSave(name) /\ InBudget'
    \/ Status /\ InBudget'
    \/ Gradient /\ InBudget'
    \/ DrawImageArea /\ InBudget'
    \/ CaptureImageArea /\ InBudget'

Spec == Init /\ [][Next]_vars

\* The calls that fill the layer, with every drawing input, and finish().
NextDraw ==
    \/ \E t \in {Translate10} : Transform(t) /\ InBudget'
    \/ \E k \in 0..MaxAlpha : SetAlphaDepth(k) /\ InBudget'
    \/ IncrAlphaDepth /\ InBudget'
    \/ \E d \in FillInputs : Fill(d[1], d[2]) /\ InBudget'
    \/ \E d \in StrokeInputs : Stroke(d[1], d[2]) /\ InBudget'
    \/ \E brush \in BlurBrushes : BlurredRect(brush) /\ InBudget'
    \/ \E cached \in AtlasResults : DrawImage(cached) /\ InBudget'
    \/ \E category \in {"mask", "color"} : DrawText(category) /\ InBudget'
    \/ Finish /\ InBudget'

SpecDraw == Init /\ [][NextDraw]_vars

\* The calls on the transform, clip and state stacks, with every transform,
\* clip and closure input, around one drawing call.
NextStack ==
    \/ Save /\ InStackBudget'
    \/ Restore /\ InStackBudget'
    \/ \E t \in Transforms : Transform(t) /\ InStackBudget'
    \/ \E shape \in ClipShapes : Clip(shape) /\ InStackBudget'
    \/ \E shape \in OverrideShapes : ClipOverride(shape) /\ InStackBudget'
    \/ \E k \in 0..MaxAlpha : SetAlphaDepth(k) /\ InStackBudget'
    \/ IncrAlphaDepth /\ InStackBudget'
    \/ \E d \in {<<RectShape(Rect5), HalfGreen>>} : Fill(d[1], d[2]) /\ InStackBudget'
    \/ Finish /\ InStackBudget'
    \/ \E name \in ClosureNames : WithSave(name) /\ InStackBudget'

SpecStack == Init /\ [][NextStack]_vars
InScenarioBudget == Cost(Ctx) <= MaxScenarioOps

\* Opaque rectangle fills under saved, translated, scaled and clipped states.
NextScenario ==
    \/ Save /\ InScenarioBudget'
    \/ Restore /\ InScenarioBudget'
    \/ \E t \in Transforms : Transform(t) /\ InScenarioBudget'
    \/ \E shape \in {RectShape(RectA)} : Clip(shape) /\ InScenarioBudget'
    \/ \E brush \in {Red, Blue} : Fill(RectShape(Rect5), brush) /\ InScenarioBudget'

SpecScenario == Init /\ [][NextScenario]_vars

\* The textured-quad pipeline taken alone: one draw() on a slice of any of
\* the batch sizes, small ones and those around the buffer's capacity.
BatchSizes ==
    (0..MaxBatch) \cup {MAX_INSTANCES - 1, MAX_INSTANCES, MAX_INSTANCES + 1}

InitTex ==
    /\ InitContext
    /\ tex_batch \in BatchSizes
    /\ tex_result = None
    /\ InitProxy
    /\ InitLife
    /\ InitKernIdle

TexDraw(mask) ==
    /\ tex_result = None
    /\ tex_result' = Some(tex_Pipeline_draw(Instances(tex_batch), depth, mask))
    /\ UNCHANGED << ctx_vars, tex_batch, proxy_vars, life_vars, kern_vars >>

NextTex == \E mask \in BOOLEAN : TexDraw(mask)

SpecTex == InitTex /\ [][NextTex]_vars

\* Frames one after the other.  Layer::reset empties the layer of the
\* context; a frame that is over (finish() has drawn, or a call has
\* panicked) is followed by a frame on a newly created context, on the same
\* GL context.
Reset == ret # "panicked" /\ Step([Ctx EXCEPT !.layer = Layer_reset(@)])

NewFrame ==
    /\ draw_calls # <<>> \/ ret = "panicked"
    /\ Step([Context_new EXCEPT !.gl = gl])

NextFrame ==
    \/ Save /\ InBudget'
    \/ \E t \in {Translate10} : Transform(t) /\ InBudget'
    \/ \E shape \in {RectShape(RectA)} : Clip(shape) /\ InBudget'
    \/ IncrAlphaDepth /\ InBudget'
    \/ \E d \in {<<RectShape(Rect5), Red>>, <<RectShape(Rect5), HalfGreen>>} :
          Fill(d[1], d[2]) /\ InBudget'
    \/ \E d \in {<<Line1, Red>>} : Stroke(d[1], d[2]) /\ InBudget'
    \/ \E cached \in AtlasResults : DrawImage(cached) /\ InBudget'
    \/ Status /\ InBudget'
    \/ Finish /\ InBudget'
    \/ Reset /\ InBudget'
    \/ NewFrame /\ InBudget'

SpecFrame == Init /\ [][NextFrame]_vars

\* Drawing under clips: clips at and off the origin, nested, overriding and
\* under a translation, each followed by calls that record instances.
NextClip ==
    \/ Save /\ InStackBudget'
    \/ Restore /\ InStackBudget'
    \/ \E t \in {Translate10} : Transform(t) /\ InStackBudget'
    \/ \E shape \in {RectShape(RectA), RectShape(RectB), RectShape(RectOff)} :
          Clip(shape) /\ InStackBudget'
    \/ \E shape \in {RectShape(RectB)} : ClipOverride(shape) /\ InStackBudget'
    \/ \E d \in {<<RectShape(Rect5), Red>>, <<Circle1, HalfGreen>>} :
          Fill(d[1], d[2]) /\ InStackBudget'
    \/ \E brush \in BlurBrushes : BlurredRect(brush) /\ InStackBudget'
    \/ \E cached \in {Some(AtlasRect)} : DrawImage(cached) /\ InStackBudget'

SpecClip == Init /\ [][NextClip]_vars

\* The proxy mainloop.  A peer sends on the reader channel.
PeerSend(msg) ==
    /\ peer_holds
    /\ n_sent < MaxMsgs
    /\ n_sent' = n_sent + 1
    /\ reader_q' = Append(reader_q, msg)
    /\ UNCHANGED << received, proxy_q, pending, next_id, handling, core_q,
                    core_handled, writer_q, reported, ctx_vars, tex_vars, life_vars, kern_vars >>

\* The proxy side sends a request or a notification to the core through the
\* core RPC handler.
CoreSend(msg) ==
    /\ n_sent < MaxMsgs
    /\ n_sent' = n_sent + 1
    /\ core_q' = Append(core_q, msg)
    /\ UNCHANGED << reader_q, received, proxy_q, pending, next_id, handling,
                    core_handled, writer_q, reported, ctx_vars, tex_vars, life_vars, kern_vars >>

\* The forwarder thread: one turn of `for msg in local_core_rpc.rx()`.
Forward ==
    /\ core_q # <<>>
    /\ core_q' = Tail(core_q)
    /\ writer_q' = Append(writer_q, forward(Head(core_q)))
    /\ UNCHANGED << reader_q, received, proxy_q, pending, next_id, handling,
                    core_handled, reported, n_sent, ctx_vars, tex_vars, life_vars, kern_vars >>

\* The reader thread: one turn of `for msg in reader_rx`.  request_async
\* numbers the request, keeps the callback under that number and queues the
\* request for the dispatcher; notification queues the notification.
ReaderRecv ==
    /\ reader_pc = "loop"
    /\ reader_q # <<>>
    /\ LET msg == Head(reader_q)
       IN  /\ reader_q' = Tail(reader_q)
           /\ received' = Append(received, msg)
           /\ CASE msg.kind = "Request" ->
                       /\ pending' = pending \cup {[hid |-> next_id, id |-> msg.id]}
                       /\ next_id' = next_id + 1
                       /\ proxy_q' = Append(proxy_q, Msg("Request", next_id, msg.body))
                       /\ UNCHANGED core_handled
                [] msg.kind = "Notification" ->
                       /\ proxy_q' = Append(proxy_q, Msg("Notification", 0, msg.body))
                       /\ UNCHANGED << pending, next_id, core_handled >>
                [] msg.kind = "Response" ->
                       /\ core_handled' =
                              Append(core_handled, [id |-> msg.id, ok |-> TRUE])
                       /\ UNCHANGED << pending, next_id, proxy_q >>
                [] msg.kind = "Error" ->
                       /\ core_handled' =
                              Append(core_handled, [id |-> msg.id, ok |-> FALSE])
                       /\ UNCHANGED << pending, next_id, proxy_q >>
    /\ UNCHANGED << handling, core_q, writer_q, reported, n_sent, ctx_vars, tex_vars, life_vars, kern_vars >>

\* proxy_rpc.mainloop(&mut dispatcher): one message of the proxy RPC
\* handler's channel goes to the dispatcher.
Dispatch ==
    /\ main_pc = "running"
    /\ proxy_q # <<>>
    /\ Head(proxy_q).kind # "Shutdown"
    /\ proxy_q' = Tail(proxy_q)
    /\ handling' = IF Head(proxy_q).kind = "Request"
                   THEN handling \cup {Head(proxy_q).id}
                   ELSE handling
    /\ UNCHANGED << reader_q, received, pending, next_id, core_q, core_handled,
                    writer_q, reported, n_sent, ctx_vars, tex_vars, life_vars, kern_vars >>

\* The dispatcher reports the result of a request it is working on: the
\* proxy RPC handler takes the callback kept under the request's number and
\* calls it with the result.
Report(hid, result) ==
    /\ hid \in handling
    /\ \E e \in pending :
          /\ e.hid = hid
          /\ pending' = pending \ {e}
          /\ writer_q' = Append(writer_q, reply_callback(e.id, hid, result))
          /\ reported' = Append(reported, [id |-> e.id, ok |-> result.ok])
    /\ handling' = handling \ {hid}
    /\ UNCHANGED << reader_q, received, proxy_q, next_id, core_q, core_handled,
                    n_sent, ctx_vars, tex_vars, life_vars, kern_vars >>

NextProxy ==
    \/ \E msg \in ReaderInputs : PeerSend(msg)
    \/ \E msg \in CoreInputs : CoreSend(msg)
    \/ Forward
    \/ ReaderRecv
    \/ Dispatch
    \/ \E hid \in handling, result \in HandlerResults : Report(hid, result)

SpecProxy == Init /\ [][NextProxy]_vars

\* The proxy mainloop to its end.  The peer drops its senders of the reader
\* channel.
PeerDrop ==
    /\ peer_holds
    /\ peer_holds' = FALSE
    /\ UNCHANGED << reader_pc, main_pc, proxy_vars, ctx_vars, tex_vars, kern_vars >>

\* The senders of the reader channel that are alive: the peer's, and the
\* reader_tx parameter of mainloop, which lives until mainloop returns.
ReaderSenders ==
    (IF peer_holds THEN {"peer"} ELSE {})
    \cup (IF main_pc = "running" THEN {"mainloop"} ELSE {})

\* `for msg in reader_rx` ends when the channel is empty and has no sender;
\* the reader thread then calls local_proxy_rpc.shutdown(), which queues
\* Shutdown for proxy_rpc.mainloop.
ReaderExit ==
    /\ reader_pc = "loop"
    /\ reader_q = <<>>
    /\ ReaderSenders = {}
    /\ reader_pc' = "done"
    /\ proxy_q' = Append(proxy_q, Msg("Shutdown", 0, "shutdown"))
    /\ UNCHANGED << reader_q, received, pending, next_id, handling, core_q,
                    core_handled, writer_q, reported, n_sent, peer_holds, main_pc,
                    ctx_vars, tex_vars, kern_vars >>

\* One turn of the reader thread.
ReaderLoop == IF reader_q # <<>> THEN ReaderRecv ELSE ReaderExit

\* proxy_rpc.mainloop returns on Shutdown, and mainloop with it.
MainloopReturn ==
    /\ main_pc = "running"
    /\ proxy_q # <<>>
    /\ Head(proxy_q).kind = "Shutdown"
    /\ proxy_q' = Tail(proxy_q)
    /\ main_pc' = "returned"
    /\ UNCHANGED << reader_q, received, pending, next_id, handling, core_q,
                    core_handled, writer_q, reported, n_sent, peer_holds, reader_pc,
                    ctx_vars, tex_vars, kern_vars >>

\* One turn of proxy_rpc.mainloop(&mut dispatcher).
MainloopTurn ==
    IF proxy_q # <<>> /\ Head(proxy_q).kind = "Shutdown"
    THEN MainloopReturn
    ELSE Dispatch

\* A caller that kept a sender of the reader channel, or one that, like main,
\* moved both ends of both channels into mainloop.
InitShutdown ==
    /\ InitContext
    /\ tex_batch = 0
    /\ tex_result = None
    /\ InitProxy
    /\ peer_holds \in BOOLEAN
    /\ reader_pc = "loop"
    /\ main_pc = "running"
    /\ InitKernIdle

NextShutdown ==
    \/ \E msg \in ReaderInputs : PeerSend(msg)
    \/ PeerDrop
    \/ \E msg \in CoreInputs : CoreSend(msg)
    \/ Forward
    \/ ReaderLoop
    \/ MainloopTurn
    \/ \E hid \in handling, result \in HandlerResults : Report(hid, result)

SpecShutdown == InitShutdown /\ [][NextShutdown]_vars

\* ------------------------------------------------------------ kern, called

\* What kern holds while it runs.
Kern ==
    [buffer |-> kern_buffer, plan |-> kern_plan,
     seen_cross_stream |-> kern_seen_cross_stream, pc |-> kern_pc,
     subtable |-> kern_in_subtable, driver |-> kern_driver, state |-> kern_state]

GlyphsOf(b) == [i \in DOMAIN b.info |-> b.info[i].glyph]

SubtableLists ==
    UNION { [1..n -> Subtables] : n \in 0..MaxSubtables }

MachineSubtables == { s \in Subtables : s.state_machine /\ s.parses }

\* The calls of kern with every list of subtable kinds, on a buffer of two
\* glyphs whose budget of operations is spent.
KernCalls ==
    { [direction |-> d, requested_kerning |-> r, subtables |-> l,
       infos |-> << GlyphInfo(1, TRUE), GlyphInfo(2, TRUE) >>, max_ops |-> 0] :
          d \in Directions, r \in BOOLEAN, l \in SubtableLists }

\* The calls of kern with one state-machine subtable, on the shortest
\* buffers, with a budget of operations that is spent, nearly spent, or (on a
\* forward buffer, without cross-stream) long enough to fill the driver's
\* stack.
MachineCalls ==
    { c \in { [direction |-> d, requested_kerning |-> TRUE, subtables |-> << s >>,
               infos |-> i, max_ops |-> m] :
                  d \in {"LTR", "RTL"}, s \in MachineSubtables,
                  i \in { <<>>, << GlyphInfo(1, TRUE) >> },
                  m \in {-1, 1, MaxKernOps} } :
          c.max_ops = MaxKernOps =>
              c.direction = "LTR" /\ ~c.subtables[1].cross_stream }

\* kern has been called and stands at the head of its loop.  A face with no
\* kern table is the call with no subtables.
InitKernWith(calls) ==
    /\ InitContext
    /\ tex_batch = 0
    /\ tex_result = None
    /\ InitProxy
    /\ InitLife
    /\ \E call \in calls :
           /\ kern_buffer = Buffer_new(call.infos, call.direction, call.max_ops)
           /\ kern_plan = [requested_kerning |-> call.requested_kerning]
           /\ kern_subtables = call.subtables
           /\ kern_at_call = [i \in DOMAIN call.infos |-> call.infos[i].glyph]
    /\ kern_seen_cross_stream = FALSE
    /\ kern_pc = "subtables"
    /\ kern_in_subtable = Subtable(FALSE, TRUE, FALSE, FALSE, FALSE)
    /\ kern_driver = StateMachineDriver_new
    /\ kern_state = START_OF_TEXT

InitKern == InitKernWith(KernCalls)

InitMachine == InitKernWith(MachineCalls)

KernBecomes(k) ==
    /\ kern_buffer' = k.buffer
    /\ kern_seen_cross_stream' = k.seen_cross_stream
    /\ kern_pc' = k.pc
    /\ kern_in_subtable' = k.subtable
    /\ kern_driver' = k.driver
    /\ kern_state' = k.state
    /\ UNCHANGED << kern_plan, kern_at_call, ctx_vars, tex_vars, proxy_vars, life_vars >>

\* for subtable in subtables { .. }: the next subtable.
KernSubtable ==
    /\ kern_pc = "subtables"
    /\ kern_subtables # <<>>
    /\ kern_subtables' = Tail(kern_subtables)
    /\ KernBecomes(kern_subtable(Head(kern_subtables), Kern))

\* The loop is over: kern returns.
KernReturn ==
    /\ kern_pc = "subtables"
    /\ kern_subtables = <<>>
    /\ kern_pc' = "done"
    /\ UNCHANGED << kern_buffer, kern_plan, kern_subtables, kern_seen_cross_stream,
                    kern_in_subtable, kern_driver, kern_state, kern_at_call,
                    ctx_vars, tex_vars, proxy_vars, life_vars >>

\* What a state table can answer in one turn of the loop.
MachineEntries ==
    { None } \cup
    { Some(Entry(p, a, o, n)) : p \in BOOLEAN, a \in BOOLEAN, o \in BOOLEAN,
                                n \in {START_OF_TEXT, 1} }

EndEntries ==
    { None, Some(Entry(FALSE, FALSE, FALSE, START_OF_TEXT)),
      Some(Entry(FALSE, FALSE, TRUE, START_OF_TEXT)) }

KernValues == { <<>>, << 3 >>, << 2, 3 >>, << ResetValue >> }

\* One turn of the loop of apply_state_machine_kerning; a turn that leaves
\* the loop goes on to the end of the body of kern's loop.
MachineStep(entry, end_entry, values) ==
    /\ kern_pc = "machine"
    /\ LET r == machine_iteration(entry, end_entry, values,
                                  kern_in_subtable.cross_stream, kern_driver,
                                  kern_state, kern_buffer)
       IN  /\ kern_driver' = r.driver
           /\ kern_state' = r.state
           /\ IF r.exit
              THEN /\ kern_buffer' = IF is_backward(kern_buffer.direction)
                                     THEN Buffer_reverse(r.buffer) ELSE r.buffer
                   /\ kern_pc' = "subtables"
              ELSE /\ kern_buffer' = r.buffer
                   /\ kern_pc' = "machine"
    /\ UNCHANGED << kern_plan, kern_subtables, kern_seen_cross_stream,
                    kern_in_subtable, kern_at_call,
                    ctx_vars, tex_vars, proxy_vars, life_vars >>

\* The table is asked for the END_OF_TEXT entry only with two glyphs or more
\* ahead, and for kerning values only by an entry that has an offset.
EndEntriesAt(b) == IF b.idx + 2 <= Len(b.info) THEN EndEntries ELSE { None }

KernValuesOf(entry) ==
    IF IsSome(entry) /\ Unwrap(entry).offset THEN KernValues ELSE { <<>> }

NextKern ==
    \/ KernSubtable
    \/ KernReturn
    \/ \E entry \in MachineEntries, end_entry \in EndEntriesAt(kern_buffer) :
          \E values \in KernValuesOf(entry) : MachineStep(entry, end_entry, values)

SpecKern == InitKern /\ [][NextKern]_vars

SpecMachine == InitMachine /\ [][NextKern]_vars

\* ------------------------------------------------------------------ claims

\* C1.  Round-trip law: a restore() that pops a save-point puts back the
\* transform, the clip stack (depth and contents) and the alpha-layer index
\* that were in effect at the matching save(), and the state stack is one
\* shorter, as it was before that save(), whatever calls came in between.
C1_RoundTrip ==
    [][(Restore /\ state_stack # <<>>) =>
          LET before == Last(state_stack).at_save
          IN  /\ cur_transform' = before.cur_transform
              /\ clip_stack' = before.clip_stack
              /\ alpha_depth' = before.alpha_depth
              /\ Len(state_stack') = Len(state_stack) - 1]_vars

\* save(); transform(translate(10,10)); clip(B); restore() has run.
C1_Witness ==
    /\ state_stack = <<>>
    /\ ret = "Ok"
    /\ cur_transform = Affine_default
    /\ clip_stack = <<>>
    /\ Len(primitives) = 4
    /\ primitives[3] = [translate |-> <<10, 10>>, clip |-> 1,
                        clip_rect |-> <<15, 15, 25, 25>>]
    /\ primitives[4] = primitives[1]

\* C2.  restore() on an empty state stack returns the stack-imbalance error
\* and leaves the transform, the clip stack, the alpha-layer index, the depth
\* counter, the primitive list and the layer buckets unchanged.
C2_RestoreUnbalanced ==
    [][(Restore /\ state_stack = <<>>) =>
          /\ ret' = "StackUnbalance"
          /\ UNCHANGED << cur_transform, clip_stack, alpha_depth, depth,
                          primitives, layer, state_stack >>]_vars

\* clip(A); restore() has run: the error is reported, the clip is still there.
C2_Witness ==
    /\ ret = "StackUnbalance"
    /\ state_stack = <<>>
    /\ clip_stack = <<RectA>>
    /\ Len(primitives) = 2

\* A closure is balanced when its save()/restore() calls are properly nested.
RECURSIVE NestedFrom(_, _)
NestedFrom(calls, open) ==
    IF calls = <<>> THEN open = 0
    ELSE IF Head(calls).op = "save" THEN NestedFrom(Tail(calls), open + 1)
    ELSE IF Head(calls).op = "restore"
         THEN open > 0 /\ NestedFrom(Tail(calls), open - 1)
    ELSE NestedFrom(Tail(calls), open)

Balanced(f) == NestedFrom(f.calls, 0)

\* C3.  with_save(f) pairs its save() with a restore() also when f fails:
\* for every balanced f the state-stack depth, the transform, the clip stack
\* and the alpha-layer index after with_save(f) are those before it, and when
\* f fails with_save returns f's error.
C3_WithSavePaired ==
    [][\A name \in ClosureNames :
          (WithSave(name) /\ Balanced(Closure(name))) =>
              /\ Len(state_stack') = Len(state_stack)
              /\ cur_transform' = cur_transform
              /\ clip_stack' = clip_stack
              /\ alpha_depth' = alpha_depth
              /\ (Closure(name).result # "Ok" => ret' = Closure(name).result)]_vars

\* with_save(f) has run with an f that set the alpha layer, clipped and failed.
C3_Witness ==
    /\ ret = "InvalidInput"
    /\ state_stack = <<>>
    /\ clip_stack = <<>>
    /\ alpha_depth = 0
    /\ Len(primitives) = 3
    /\ primitives[2].clip_rect = RectB

\* The area of a rectangle, as the set of unit cells inside it.
Cells(r) == (r[1] .. (r[3] - 1)) \X (r[2] .. (r[4] - 1))

Offset(r, tx, ty) == << r[1] + tx, r[2] + ty, r[3] + tx, r[4] + ty >>

\* C8.  After clip(R) the effective clip is R offset by the current
\* translation when no clip was active, and otherwise covers exactly the area
\* common to R offset by the translation and the previous effective clip.
\* With B inside A, no clip active at the start and the transform unchanged,
\* clip(A); clip(B) and clip(B); clip(A) both end with B as effective clip.
C8_ClipIntersects ==
    [][\A shape \in ClipShapes :
          (Clip(shape) /\ shape.kind = "rect") =>
              LET r == Offset(shape.rect, cur_transform[5], cur_transform[6])
                  a == Offset(RectA, cur_transform[5], cur_transform[6])
                  b == Offset(RectB, cur_transform[5], cur_transform[6])
              IN  /\ clip_stack' # <<>>
                  /\ clip_stack = <<>> => Last(clip_stack') = r
                  /\ clip_stack # <<>> =>
                        Cells(Last(clip_stack')) = Cells(r) \cap Cells(Last(clip_stack))
                  /\ (clip_stack = <<a>> /\ r = b) => Last(clip_stack') = b
                  /\ (clip_stack = <<b>> /\ r = a) => Last(clip_stack') = b]_vars

\* transform(translate(10,10)); clip(B); clip(A) has run.
C8_Witness ==
    /\ cur_transform = Translate10
    /\ clip_stack = << <<15, 15, 25, 25>>, <<15, 15, 25, 25>> >>
    /\ Len(primitives) = 4
    /\ Last(primitives).clip_rect = <<15, 15, 25, 25>>

\* C9.  At every state-stack depth the saved parent transform composed with
\* the recorded relative transform is the transform in effect there: the
\* current transform for the top save-point, and for a lower save-point the
\* parent transform stored in the save-point directly above it.
C9_TransformInvariant ==
    \A i \in 1..Len(state_stack) :
        Affine_mul(state_stack[i].transform, state_stack[i].rel_transform)
            = IF i = Len(state_stack) THEN cur_transform
              ELSE state_stack[i + 1].transform

\* save(); transform(scale(2)); save(); transform(translate(10,10)) has run,
\* or the same with the first transform only.
C9_Witness ==
    /\ Len(state_stack) = 2
    /\ state_stack[1].rel_transform = Scale2
    /\ state_stack[2].transform = Scale2

\* ---------------------------------------------------- claims on the layer

\* Geometry (quads or mesh vertices) recorded with depth d.
InOpaque(l, d) ==
    \/ \E i \in DOMAIN l.quads : l.quads[i].depth = d
    \/ \E i \in DOMAIN l.triangles.vertices : l.triangles.vertices[i].depth = d

InTransparent(l, k, d) ==
    /\ k \in DOMAIN l.transparent_layer
    /\ LET b == l.transparent_layer[k]
       IN  \/ \E i \in DOMAIN b.quads : b.quads[i].depth = d
           \/ \E i \in DOMAIN b.triangles.vertices : b.triangles.vertices[i].depth = d

OpaqueBrushes == {Red, Blue}

\* Where the geometry of the call that has just run (depth' is its depth) is.
Routed(brush) ==
    IF brush \in OpaqueBrushes
    THEN /\ InOpaque(layer', depth')
         /\ \A k \in DOMAIN layer'.transparent_layer : ~InTransparent(layer', k, depth')
    ELSE /\ InTransparent(layer', alpha_depth, depth')
         /\ ~InOpaque(layer', depth')
         /\ \A k \in DOMAIN layer'.transparent_layer :
                k # alpha_depth => ~InTransparent(layer', k, depth')

\* C4.  Geometry is routed by its alpha at call time: after fill() of a
\* rectangle or circle, or stroke() of any shape, with an opaque colour the
\* new geometry is in the opaque bucket and in no transparent bucket; with
\* alpha < 1.0 it is in the transparent bucket keyed by the alpha-layer index
\* current at the call, and in neither the opaque bucket nor another bucket.
C4_RoutedByAlpha ==
    [][/\ \A d \in FillInputs :
              (Fill(d[1], d[2]) /\ d[1].kind \in {"rect", "circle"}) => Routed(d[2])
       /\ \A d \in StrokeInputs : Stroke(d[1], d[2]) => Routed(d[2])]_vars

\* An opaque rectangle fill and a translucent stroke at alpha-layer 1 have run.
C4_Witness ==
    /\ Len(layer.quads) = 1
    /\ HasBucket(layer, 1)
    /\ ~HasBucket(layer, 0)
    /\ layer.transparent_layer[1].triangles.vertices # <<>>
    /\ layer.transparent_layer[1].quads = <<>>
    /\ layer.triangles.vertices = <<>>

TransparentCalls == {i \in DOMAIN draw_calls : draw_calls[i].bucket # OpaqueBucket}

\* C5.  At finish() the transparent buckets are drawn in ascending
\* alpha-layer-index order, each bucket exactly once: every bucket of the
\* layer is drawn, no draw of a bucket is repeated, and for indices i < j
\* every draw of bucket i comes before every draw of bucket j, whatever the
\* order in which the buckets were created.
C5_BucketsAscending ==
    draw_calls # <<>> =>
        /\ {draw_calls[i].bucket : i \in TransparentCalls} = DOMAIN layer.transparent_layer
        /\ \A i, j \in TransparentCalls :
              draw_calls[i].bucket < draw_calls[j].bucket => i < j
        /\ \A i, j \in TransparentCalls :
              (i # j /\ draw_calls[i].bucket = draw_calls[j].bucket)
                  => draw_calls[i].cat # draw_calls[j].cat

\* Bucket 1 was filled before bucket 0, and finish() has drawn both.
C5_Witness ==
    /\ draw_calls # <<>>
    /\ DOMAIN layer.transparent_layer = {0, 1}
    /\ layer.transparent_layer[0].quads # <<>>
    /\ layer.transparent_layer[1].quads # <<>>
    /\ layer.transparent_layer[1].quads[1].depth < layer.transparent_layer[0].quads[1].depth
    /\ \E i, j \in TransparentCalls :
          /\ draw_calls[i].cat = "quads" /\ draw_calls[i].bucket = 0
          /\ draw_calls[j].cat = "quads" /\ draw_calls[j].bucket = 1
          /\ i < j

CategoryOrder ==
    << "quads", "triangles", "color_texts", "atlas", "texts", "blurred_quads" >>

CategoryRank(cat) == CHOOSE n \in DOMAIN CategoryOrder : CategoryOrder[n] = cat

\* C6.  The draw sequence of finish() is: the opaque bucket's quads, then the
\* opaque triangle mesh, both before any transparent bucket; then inside
\* every transparent bucket quads, triangle mesh, coloured glyph runs, atlas
\* images, masked glyph run and last the blurred quads.  No draw of a later
\* category is issued before a draw of an earlier one of the same bucket.
C6_DrawOrder ==
    draw_calls # <<>> =>
        /\ Len(draw_calls) >= 2
        /\ draw_calls[1].bucket = OpaqueBucket /\ draw_calls[1].cat = "quads"
        /\ draw_calls[2].bucket = OpaqueBucket /\ draw_calls[2].cat = "triangles"
        /\ \A i \in DOMAIN draw_calls : i > 2 => i \in TransparentCalls
        /\ \A i \in TransparentCalls : draw_calls[i].cat \in
              {CategoryOrder[n] : n \in DOMAIN CategoryOrder}
        /\ \A i, j \in TransparentCalls :
              (draw_calls[i].bucket = draw_calls[j].bucket /\
               CategoryRank(draw_calls[i].cat) < CategoryRank(draw_calls[j].cat))
                  => i < j
        /\ \A i \in TransparentCalls :
              (draw_calls[i].cat = "texts" /\ draw_calls[i].issued)
                  => draw_calls[i].program = "mask_program"

\* finish() has drawn a transparent bucket that holds an atlas image and a
\* blurred quad.
C6_Witness ==
    /\ draw_calls # <<>>
    /\ \E k \in DOMAIN layer.transparent_layer :
          /\ layer.transparent_layer[k].atlas # <<>>
          /\ layer.transparent_layer[k].blurred_quads # <<>>
          /\ \E i, j \in TransparentCalls :
                /\ i < j
                /\ draw_calls[i].bucket = k /\ draw_calls[i].cat = "atlas"
                /\ draw_calls[i].issued
                /\ draw_calls[j].bucket = k /\ draw_calls[j].cat = "blurred_quads"

\* C7.  The depth counter starts at 0, never decreases, grows by exactly one
\* with each fill(), stroke() and blurred_rect(), and is left unchanged by
\* save, restore, transform, clip, draw_image, draw_svg, set/incr alpha depth
\* and finish.
C7_DepthCounter ==
    /\ depth = 0
    /\ [][/\ depth' >= depth
          /\ ( \/ \E d \in FillInputs : Fill(d[1], d[2])
               \/ \E d \in StrokeInputs : Stroke(d[1], d[2])
               \/ \E brush \in BlurBrushes : BlurredRect(brush) )
                 => depth' = depth + 1
          /\ depth' # depth =>
                ~ ( \/ Save \/ Restore
                    \/ \E t \in Transforms : Transform(t)
                    \/ \E shape \in ClipShapes : Clip(shape) \/ ClipOverride(shape)
                    \/ \E cached \in AtlasResults : DrawImage(cached) \/ DrawSvg(cached)
                    \/ \E k \in 0..MaxAlpha : SetAlphaDepth(k)
                    \/ IncrAlphaDepth
                    \/ Finish )]_vars

\* A stroke and then a blurred rectangle have run: the later call's record
\* carries the greater depth.
C7_Witness ==
    /\ depth = 2
    /\ layer.triangles.vertices # <<>>
    /\ layer.triangles.vertices[1].depth = 1
    /\ HasBucket(layer, 0)
    /\ layer.transparent_layer[0].blurred_quads # <<>>
    /\ layer.transparent_layer[0].blurred_quads[1].depth = 2

RECURSIVE SumOver(_, _, _)
SumOver(S, f, n) ==
    IF S = {} THEN n
    ELSE LET k == CHOOSE x \in S : TRUE
         IN  SumOver(S \ {k}, f, n + f[k])

\* Quad instance records (plain and blurred), mesh vertices and mesh indices
\* of the whole layer.
NQuads(l) ==
    SumOver(DOMAIN l.transparent_layer,
            [k \in DOMAIN l.transparent_layer |->
                Len(l.transparent_layer[k].quads) + Len(l.transparent_layer[k].blurred_quads)],
            Len(l.quads))

NVertices(l) ==
    SumOver(DOMAIN l.transparent_layer,
            [k \in DOMAIN l.transparent_layer |->
                Len(l.transparent_layer[k].triangles.vertices)],
            Len(l.triangles.vertices))

NIndices(l) ==
    SumOver(DOMAIN l.transparent_layer,
            [k \in DOMAIN l.transparent_layer |->
                Len(l.transparent_layer[k].triangles.indices)],
            Len(l.triangles.indices))

\* C10.  fill() of a rectangle adds exactly one quad instance record and no
\* triangle vertices or indices to the layer; fill() of a circle adds no quad
\* instance, only mesh vertices and indices.
C10_FillRectOneQuad ==
    [][\A d \in FillInputs :
          Fill(d[1], d[2]) =>
              /\ d[1].kind = "rect" =>
                    /\ NQuads(layer') = NQuads(layer) + 1
                    /\ NVertices(layer') = NVertices(layer)
                    /\ NIndices(layer') = NIndices(layer)
              /\ d[1].kind = "circle" =>
                    /\ NQuads(layer') = NQuads(layer)
                    /\ NVertices(layer') >= NVertices(layer)
                    /\ NIndices(layer') >= NIndices(layer)]_vars

\* An opaque rectangle fill and an opaque circle fill have run.
C10_Witness ==
    /\ Len(layer.quads) = 1
    /\ Len(layer.triangles.vertices) = 3
    /\ Len(layer.triangles.indices) = 3
    /\ layer.transparent_layer = <<>>
    /\ depth = 2

\* The quad an opaque fill of r with brush records in the state it is called in.
FilledQuad(r, brush) ==
    [rect |-> << r[1] + cur_transform[5], r[2] + cur_transform[6],
                 r[3] + cur_transform[5], r[4] + cur_transform[6] >>,
     color |-> << (brush \div 16777216) % 256, (brush \div 65536) % 256,
                  (brush \div 256) % 256, brush % 256 >>,
     depth |-> depth + 1,
     clip |-> IF clip_stack = <<>> THEN <<0, 0, 0, 0>>
              ELSE clip_stack[Len(clip_stack)]]

\* C11.  fill() of a rectangle r under a transform with translation (tx, ty)
\* records a quad whose rect is r offset by (tx, ty), whose depth is the
\* freshly incremented depth counter and whose clip is the current clip.
\* After save(); transform(translate(10,10)); fill(Rect(0,0,5,5), red);
\* restore(), fill(Rect(0,0,5,5), blue) leaves a red quad at (10,10)-(15,15)
\* and a blue quad at (0,0)-(5,5), both in the opaque bucket, blue with the
\* higher depth.
C11_FillRecordsQuad ==
    [][\A brush \in {Red, Blue} :
          Fill(RectShape(Rect5), brush) =>
              /\ layer'.quads = Append(layer.quads, FilledQuad(Rect5, brush))
              /\ depth' = depth + 1
              /\ layer'.transparent_layer = layer.transparent_layer
              /\ layer'.triangles = layer.triangles
              /\ ( /\ brush = Blue
                   /\ state_stack = <<>>
                   /\ cur_transform = Affine_default
                   /\ clip_stack = <<>>
                   /\ Len(primitives) = 3
                   /\ primitives[2].translate = <<10, 10>>
                   /\ primitives[3].translate = <<0, 0>>
                   /\ Len(layer.quads) = 1
                   /\ layer.quads[1].rect = <<10, 10, 15, 15>>
                   /\ layer.quads[1].color = <<127, 0, 0, 255>> )
                 => /\ Len(layer'.quads) = 2
                    /\ layer'.quads[1].rect = <<10, 10, 15, 15>>
                    /\ layer'.quads[1].color = <<127, 0, 0, 255>>
                    /\ layer'.quads[2].rect = <<0, 0, 5, 5>>
                    /\ layer'.quads[2].color = <<0, 0, 255, 255>>
                    /\ layer'.quads[2].depth > layer'.quads[1].depth
                    /\ layer'.transparent_layer = <<>>]_vars

\* save(); transform(translate(10,10)); fill(red); restore(); fill(blue) has run.
C11_Witness ==
    /\ state_stack = <<>>
    /\ cur_transform = Affine_default
    /\ Len(primitives) = 3
    /\ primitives[2].translate = <<10, 10>>
    /\ depth = 2
    /\ Len(layer.quads) = 2
    /\ layer.quads[1] = [rect |-> <<10, 10, 15, 15>>, color |-> <<127, 0, 0, 255>>,
                         depth |-> 1, clip |-> <<0, 0, 0, 0>>]
    /\ layer.quads[2] = [rect |-> <<0, 0, 5, 5>>, color |-> <<0, 0, 255, 255>>,
                         depth |-> 2, clip |-> <<0, 0, 0, 0>>]

\* C12.  fill() of a shape that is neither a rectangle nor a circle is
\* tessellated into a triangle mesh appended to the bucket selected by the
\* colour's alpha and the current alpha-layer index: after the call the
\* bucket holds vertices that carry the call's depth.
C12_FillPathTessellated ==
    [][\A d \in FillInputs :
          (Fill(d[1], d[2]) /\ d[1].kind \notin {"rect", "circle"}) => Routed(d[2])]_vars

\* C13.  No operation of the draw context is fatal: every call, supported or
\* not, returns normally.
C13_NeverFatal == ret # "panicked"

\* C14.  clip() and clip_override() with a shape that is not an axis-aligned
\* rectangle are ignored: the clip stack, the clip count of the active
\* save-point, the primitive list and every other part of the state are
\* unchanged, with or without an active clip.
C14_NonRectClipIgnored ==
    [][\A shape \in ClipShapes \cup OverrideShapes :
          (shape.kind # "rect" /\ (Clip(shape) \/ ClipOverride(shape)))
              => UNCHANGED vars]_vars

\* A clip is active under an open save-point that counts it, and clip() and
\* clip_override() of a circle can be called.
C14_Witness ==
    /\ clip_stack = <<RectA>>
    /\ Len(state_stack) = 1
    /\ state_stack[1].n_clip = 1
    /\ Len(primitives) = 2
    /\ ENABLED Clip(Circle1)
    /\ ENABLED ClipOverride(Circle1)

\* The bucket of the current alpha-layer index, empty when not yet created.
CurrentBucket ==
    IF alpha_depth \in DOMAIN layer.transparent_layer
    THEN layer.transparent_layer[alpha_depth]
    ELSE TransparentLayer_new

\* C15.  draw_image() and draw_svg() whose atlas lookup fails leave the
\* layer, the depth counter, the stacks and the primitives unchanged; when the
\* lookup succeeds exactly one textured-quad record is appended to the atlas
\* category of the transparent bucket of the current alpha-layer index, with
\* the current (not incremented) depth and the current clip, and nothing else
\* changes.
C15_ImageAtlas ==
    [][\A cached \in AtlasResults :
          (DrawImage(cached) \/ DrawSvg(cached)) =>
              IF cached = None
              THEN UNCHANGED vars
              ELSE /\ UNCHANGED << depth, cur_transform, state_stack, clip_stack,
                                   primitives, alpha_depth >>
                   /\ layer'.quads = layer.quads
                   /\ layer'.triangles = layer.triangles
                   /\ DOMAIN layer'.transparent_layer
                          = DOMAIN layer.transparent_layer \cup {alpha_depth}
                   /\ \A k \in DOMAIN layer.transparent_layer :
                          k # alpha_depth =>
                              layer'.transparent_layer[k] = layer.transparent_layer[k]
                   /\ LET new == layer'.transparent_layer[alpha_depth]
                      IN  /\ Len(new.atlas) = Len(CurrentBucket.atlas) + 1
                          /\ SubSeq(new.atlas, 1, Len(CurrentBucket.atlas))
                                 = CurrentBucket.atlas
                          /\ new.atlas[Len(new.atlas)].depth = depth
                          /\ new.atlas[Len(new.atlas)].clip
                                 = IF clip_stack = <<>> THEN <<0, 0, 0, 0>>
                                   ELSE clip_stack[Len(clip_stack)]
                          /\ [new EXCEPT !.atlas = <<>>]
                                 = [CurrentBucket EXCEPT !.atlas = <<>>]]_vars

\* After a fill, an image was drawn from the atlas: its record carries the
\* fill's depth and the counter has not moved.
C15_Witness ==
    /\ depth = 1
    /\ HasBucket(layer, 0)
    /\ Len(layer.transparent_layer[0].atlas) = 1
    /\ layer.transparent_layer[0].atlas[1].depth = 1
    /\ Len(layer.transparent_layer[0].quads) = 1

\* C16.  The textured-quad pipeline's draw() with an empty instance slice is
\* a no-op: it binds no program, uploads nothing and issues no draw call;
\* with a slice of n > 0 records it uploads the slice once and issues exactly
\* one instanced draw whose instance count is n.
C16_PipelineDraw ==
    IsSome(tex_result) =>
        LET r == Unwrap(tex_result)
        IN  IF tex_batch = 0
            THEN /\ ~r.issued
                 /\ r.program = "none"
                 /\ r.uploads = 0 /\ r.uploaded = 0
                 /\ r.draws = 0 /\ r.instance_count = 0
            ELSE /\ r.issued
                 /\ r.program \in {"program", "mask_program"}
                 /\ r.uploads = 1 /\ r.uploaded = tex_batch
                 /\ r.draws = 1 /\ r.instance_count = tex_batch

\* draw() has run on an empty slice.
C16_Witness ==
    /\ tex_batch = 0
    /\ IsSome(tex_result)
    /\ ~Unwrap(tex_result).issued

\* C20.  For every pipeline draw the number of instance records uploaded
\* does not exceed the capacity of the pre-allocated instance buffer
\* (MAX_INSTANCES records for the textured-quad pipeline); a batch larger
\* than the capacity is treated as a capacity error: nothing of it is
\* uploaded or drawn.
C20_WithinCapacity ==
    IsSome(tex_result) =>
        LET r == Unwrap(tex_result)
            capacity == tex_Pipeline_new.instances.capacity
        IN  /\ r.uploaded <= capacity
            /\ r.instance_count <= capacity
            /\ tex_batch > capacity => (~r.issued /\ r.uploads = 0 /\ r.draws = 0)

\* C17.  During finish() blending is disabled and depth writes are on while
\* the opaque bucket is drawn; for every transparent-bucket draw depth writes
\* are off and blending is enabled; when the layer draw has returned,
\* blending is disabled and depth writes are enabled again, for any number
\* of transparent buckets including none.
C17_GlState ==
    draw_calls # <<>> =>
        /\ \A i \in DOMAIN draw_calls :
              draw_calls[i].bucket = OpaqueBucket =>
                  (~draw_calls[i].blend /\ draw_calls[i].depth_mask)
        /\ \A i \in TransparentCalls :
              draw_calls[i].blend /\ ~draw_calls[i].depth_mask
        /\ ~gl.blend
        /\ gl.depth_mask

\* finish() has drawn two transparent buckets and returned.
C17_Witness ==
    /\ draw_calls # <<>>
    /\ DOMAIN layer.transparent_layer = {0, 1}
    /\ \E i \in TransparentCalls : draw_calls[i].bucket = 1 /\ draw_calls[i].issued
    /\ ~gl.blend
    /\ gl.depth_mask

\* C18.  In every transparent bucket the masked glyph run is the only
\* category drawn with the src1-colour blend function and the mask program;
\* quads, triangle mesh, coloured glyph runs and atlas images before it and
\* blurred quads after it are drawn with the source-alpha blend function and
\* a non-mask program, also in a bucket drawn after another bucket.
C18_BlendSwitch ==
    draw_calls # <<>> =>
        \A i \in TransparentCalls :
            IF draw_calls[i].cat = "texts"
            THEN /\ draw_calls[i].blend_func = "SRC1_COLOR"
                 /\ draw_calls[i].issued => draw_calls[i].program = "mask_program"
            ELSE /\ draw_calls[i].blend_func = "SRC_ALPHA"
                 /\ draw_calls[i].program # "mask_program"

\* finish() has drawn bucket 0 and then bucket 1, which holds a masked glyph
\* run: bucket 1 starts with the source-alpha function after bucket 0's
\* masked run switched it.
C18_Witness ==
    /\ draw_calls # <<>>
    /\ DOMAIN layer.transparent_layer = {0, 1}
    /\ \E i, j, k \in TransparentCalls :
          /\ i < j /\ j < k
          /\ draw_calls[i].bucket = 0 /\ draw_calls[i].cat = "texts"
          /\ draw_calls[i].blend_func = "SRC1_COLOR"
          /\ draw_calls[j].bucket = 1 /\ draw_calls[j].cat = "quads"
          /\ draw_calls[j].blend_func = "SRC_ALPHA"
          /\ draw_calls[k].bucket = 1 /\ draw_calls[k].cat = "texts"
          /\ draw_calls[k].issued /\ draw_calls[k].program = "mask_program"

RECURSIVE SumDraws(_, _)
SumDraws(calls, n) ==
    IF calls = <<>> THEN n ELSE SumDraws(Tail(calls), n + Head(calls).draws)

\* C19.  The number of GPU draw calls of one finish() depends only on the
\* number of transparent buckets: with L buckets the layer invokes the
\* pipelines exactly 2 + 6 * L times, and each invocation issues at most one
\* instanced draw, however many objects were drawn.
C19_DrawCallCount ==
    draw_calls # <<>> =>
        LET L == Cardinality(DOMAIN layer.transparent_layer)
        IN  /\ Len(draw_calls) = 2 + 6 * L
            /\ \A i \in DOMAIN draw_calls : draw_calls[i].draws <= 1
            /\ SumDraws(draw_calls, 0) <= 2 + 6 * L

\* finish() has drawn a bucket with two atlas images in one instanced draw.
C19_Witness ==
    /\ draw_calls # <<>>
    /\ DOMAIN layer.transparent_layer = {0}
    /\ Len(layer.transparent_layer[0].atlas) = 2
    /\ Len(draw_calls) = 8
    /\ \E i \in TransparentCalls :
          /\ draw_calls[i].cat = "atlas"
          /\ draw_calls[i].draws = 1
          /\ draw_calls[i].instance_count = 2

\* The clip-push counts (n_clip) of the save-points of a state stack, summed.
RECURSIVE SumNClip(_)
SumNClip(stack) ==
    IF stack = <<>> THEN 0 ELSE Last(stack).n_clip + SumNClip(Front(stack))

\* The clip entries no save-point on the state stack accounts for.
Unscoped == Len(clip_stack) - SumNClip(state_stack)

\* A clip() or clip_override() of a rectangle: a clip that pushes an entry.
PushesClip ==
    \E shape \in ClipShapes \cup OverrideShapes :
        /\ IsSome(as_rect(shape))
        /\ Clip(shape) \/ ClipOverride(shape)

\* C21.  The depth of the clip stack is the number of clips pushed while no
\* save-point was active plus the sum of the clip-push counts of the
\* save-points on the state stack: the entries no save-point accounts for
\* grow by one exactly on a clip pushed with an empty state stack and never
\* shrink; a clip that pushes adds one entry and one count, to the top
\* save-point only; restore() pops exactly the count of the save-point it pops
\* and leaves every entry pushed before the matching save() in place.
C21_ClipDepth ==
    [][/\ Unscoped >= 0
       /\ Unscoped' = Unscoped + (IF state_stack = <<>> /\ PushesClip THEN 1 ELSE 0)
       /\ PushesClip =>
              /\ Len(clip_stack') = Len(clip_stack) + 1
              /\ Front(clip_stack') = clip_stack
              /\ state_stack # <<>> =>
                     state_stack' = [state_stack EXCEPT ![Len(state_stack)].n_clip = @ + 1]
       /\ (Restore /\ state_stack # <<>>) =>
              LET state == Last(state_stack)
              IN  /\ Len(clip_stack') = Len(clip_stack) - state.n_clip
                  /\ clip_stack' = SubSeq(clip_stack, 1, Len(clip_stack'))
                  /\ Len(clip_stack') >= Len(state.at_save.clip_stack)]_vars

\* clip(A); save(); clip(B); restore() has run: the clip pushed before the
\* save() is still on the clip stack.
C21_Witness ==
    /\ state_stack = <<>>
    /\ ret = "Ok"
    /\ clip_stack = <<RectA>>
    /\ Len(primitives) = 4
    /\ primitives[3].clip_rect = RectB
    /\ primitives[4].clip_rect = RectA

\* The primitive record of the transform and clip now in force.
CurrentPrimitive ==
    [translate |-> <<cur_transform[5], cur_transform[6]>>,
     clip |-> 1,
     clip_rect |-> IF clip_stack = <<>> THEN <<0, 0, 0, 0>> ELSE Last(clip_stack)]

\* C22.  The latest primitive record holds the translation of the current
\* transform and the current clip rectangle.  A new context has one record;
\* transform(), a clip that pushes an entry and a restore() that pops a
\* save-point push exactly one record each; and only these calls (alone or
\* inside with_save) add a record or change the transform or the clip stack.
C22_LatestPrimitive ==
    /\ Len(primitives) = 1
    /\ [](Last(primitives) = CurrentPrimitive)
    /\ [][/\ ((\E t \in Transforms : Transform(t)) \/ PushesClip
                \/ (Restore /\ state_stack # <<>>)) =>
                 Front(primitives') = primitives
          /\ ~ UNCHANGED << primitives, cur_transform, clip_stack >> =>
                 \/ \E t \in Transforms : Transform(t)
                 \/ PushesClip
                 \/ Restore /\ state_stack # <<>>
                 \/ \E name \in ClosureNames : WithSave(name)]_vars

\* save(); transform(translate(10,10)); restore() has run: the restore pushed
\* a third record, for the transform it put back.
C22_Witness ==
    /\ state_stack = <<>>
    /\ ret = "Ok"
    /\ clip_stack = <<>>
    /\ cur_transform = Affine_default
    /\ Len(primitives) = 3
    /\ primitives[2].translate = <<10, 10>>
    /\ primitives[3] = CurrentPrimitive

\* C23.  blurred_rect(rect, r, brush) appends exactly one blurred-quad
\* record, to the transparent bucket of the current alpha-layer index also
\* for a fully opaque brush: its outer rect is the input rect offset by the
\* current translation and grown by 3*r on every side, its inner rect the
\* input rect offset by the current translation.  The opaque bucket, the
\* other buckets and the other categories of that bucket stay as they were.
C23_BlurredRect ==
    [][\A brush \in BlurBrushes :
          BlurredRect(brush) =>
              LET inner == Offset(Rect5, cur_transform[5], cur_transform[6])
                  outer == << inner[1] - 3, inner[2] - 3, inner[3] + 3, inner[4] + 3 >>
                  old == CurrentBucket
                  new == layer'.transparent_layer[alpha_depth]
              IN  /\ format_color(brush)[4] = One
                  /\ HasBucket(layer', alpha_depth)
                  /\ Len(new.blurred_quads) = Len(old.blurred_quads) + 1
                  /\ Front(new.blurred_quads) = old.blurred_quads
                  /\ Last(new.blurred_quads).rect = outer
                  /\ Last(new.blurred_quads).blur_rect = inner
                  /\ Last(new.blurred_quads).blur_radius = 1
                  /\ new = [old EXCEPT !.blurred_quads = new.blurred_quads]
                  /\ layer'.quads = layer.quads
                  /\ layer'.triangles = layer.triangles
                  /\ DOMAIN layer'.transparent_layer =
                         (DOMAIN layer.transparent_layer) \cup {alpha_depth}
                  /\ \A k \in DOMAIN layer.transparent_layer :
                         k # alpha_depth =>
                             layer'.transparent_layer[k] = layer.transparent_layer[k]]_vars

\* transform(translate(10,10)); blurred_rect((0,0,5,5), 1, opaque red) has
\* run: the record is in the transparent bucket, the opaque bucket is empty.
C23_Witness ==
    /\ depth = 1
    /\ layer.quads = <<>>
    /\ HasBucket(layer, alpha_depth)
    /\ Len(CurrentBucket.blurred_quads) = 1
    /\ CurrentBucket.blurred_quads[1].rect = <<7, 7, 18, 18>>
    /\ CurrentBucket.blurred_quads[1].blur_rect = <<10, 10, 15, 15>>
    /\ CurrentBucket.blurred_quads[1].color[4] = One

\* The depths carried by the records of a sequence.
DepthsOf(records) == { records[i].depth : i \in DOMAIN records }

\* The depths of the records fill, stroke and blurred_rect make: quads,
\* mesh vertices and blurred quads, of the opaque and transparent buckets.
ShapeDepths(l) ==
    DepthsOf(l.quads) \cup DepthsOf(l.triangles.vertices)
    \cup UNION { DepthsOf(l.transparent_layer[k].quads)
                 \cup DepthsOf(l.transparent_layer[k].triangles.vertices)
                 \cup DepthsOf(l.transparent_layer[k].blurred_quads) :
                 k \in DOMAIN l.transparent_layer }

\* The depths of the textured-quad records: glyphs and atlas images.
TexDepths(l) ==
    UNION { DepthsOf(l.transparent_layer[k].texts)
            \cup DepthsOf(l.transparent_layer[k].color_texts)
            \cup DepthsOf(l.transparent_layer[k].atlas) :
            k \in DOMAIN l.transparent_layer }

\* C24.  Every record and vertex of the layer carries a depth between 0 and
\* the depth counter, and finish() hands that counter to every pipeline as the
\* maximum depth; the records of fill, stroke and blurred_rect carry a depth
\* of at least 1; an image or svg record carries the depth counter as it is
\* when the call is made, which is the depth of the latest fill, stroke or
\* blurred_rect before it, 0 when there was none.
C24_DepthRange ==
    /\ [](/\ \A d \in ShapeDepths(layer) : 1 <= d /\ d <= depth
          /\ \A d \in TexDepths(layer) : 0 <= d /\ d <= depth
          /\ \A i \in DOMAIN draw_calls : draw_calls[i].max_depth = depth)
    /\ [][(DrawImage(Some(AtlasRect)) \/ DrawSvg(Some(AtlasRect))) =>
              /\ Last(layer'.transparent_layer[alpha_depth].atlas).depth = depth
              /\ depth' = depth]_vars

\* fill(); draw_image(); finish() has run: the quad and the image both carry
\* depth 1, the value the pipelines were given as maximum.
C24_Witness ==
    /\ draw_calls # <<>>
    /\ depth = 1
    /\ ShapeDepths(layer) = {1}
    /\ HasBucket(layer, alpha_depth)
    /\ Len(CurrentBucket.atlas) = 1
    /\ CurrentBucket.atlas[1].depth = 1
    /\ \E i \in DOMAIN draw_calls :
          /\ draw_calls[i].cat = "atlas"
          /\ draw_calls[i].issued
          /\ draw_calls[i].max_depth = 1

\* The per-frame state of a context that has recorded nothing.
FreshFrame ==
    /\ layer.quads = <<>>
    /\ layer.triangles = [vertices |-> <<>>, indices |-> <<>>]
    /\ DOMAIN layer.transparent_layer = {}
    /\ depth = 0
    /\ alpha_depth = 0
    /\ cur_transform = Affine_default
    /\ state_stack = <<>>
    /\ clip_stack = <<>>
    /\ Len(primitives) = 1
    /\ draw_calls = <<>>

\* C25.  A newly created draw context, the first and every later one, has
\* an empty opaque bucket, no transparent bucket, depth counter 0,
\* alpha-layer index 0, the identity transform, empty state and clip stacks
\* and one primitive record; Layer reset, from any accumulated state, leaves
\* the opaque quads, the opaque mesh's vertices and indices and the map of
\* transparent buckets empty, and touches nothing else.
C25_FrameStart ==
    /\ FreshFrame
    /\ [][/\ NewFrame => FreshFrame'
          /\ Reset =>
                /\ layer'.quads = <<>>
                /\ layer'.triangles.vertices = <<>>
                /\ layer'.triangles.indices = <<>>
                /\ DOMAIN layer'.transparent_layer = {}
                /\ UNCHANGED << depth, alpha_depth, cur_transform, state_stack,
                                clip_stack, primitives, draw_calls >>]_vars

\* A frame recorded an opaque stroke and a transparent fill, the layer was
\* reset, and finish() then drew nothing.
C25_Witness ==
    /\ depth = 2
    /\ layer.quads = <<>>
    /\ layer.triangles.vertices = <<>>
    /\ DOMAIN layer.transparent_layer = {}
    /\ draw_calls # <<>>
    /\ \A i \in DOMAIN draw_calls : ~draw_calls[i].issued

\* C26.  A clip entry is in device space: clip_override() pushes the shape
\* offset by the translation in force at the call, whatever the previous
\* clip; clip() pushes the same when no clip is active and otherwise a
\* rectangle inside both that and the previous effective clip; a later
\* transform() leaves every entry of the clip stack, and so the effective
\* clip, as it is.
C26_ClipDeviceSpace ==
    [][/\ (\E t \in Transforms : Transform(t)) =>
              /\ clip_stack' = clip_stack
              /\ current_clip([clip_stack |-> clip_stack'])
                     = current_clip([clip_stack |-> clip_stack])
       /\ \A shape \in ClipShapes \cup OverrideShapes :
              shape.kind = "rect" =>
                  LET r == Offset(shape.rect, cur_transform[5], cur_transform[6])
                  IN  /\ ClipOverride(shape) =>
                            /\ Last(clip_stack') = r
                            /\ Front(clip_stack') = clip_stack
                      /\ Clip(shape) =>
                            /\ Front(clip_stack') = clip_stack
                            /\ Cells(Last(clip_stack')) \subseteq Cells(r)
                            /\ clip_stack = <<>> => Last(clip_stack') = r
                            /\ clip_stack # <<>> =>
                                  Cells(Last(clip_stack')) \subseteq Cells(Last(clip_stack))]_vars

\* clip(B); transform(translate(10,10)); clip_override(A) has run: the entry
\* of B did not move, and the override is A offset by (10,10), which B does
\* not contain.
C26_Witness ==
    /\ cur_transform = Translate10
    /\ clip_stack = << RectB, <<10, 10, 30, 30>> >>
    /\ Len(primitives) = 4
    /\ primitives[2].clip_rect = RectB
    /\ primitives[3].clip_rect = RectB
    /\ primitives[3].translate = <<10, 10>>

\* C27.  stroke_styled(), fill_even_odd() and clear() are no-ops: the depth
\* counter, the layer buckets, the transform, the clip and state stacks, the
\* alpha-layer index and the primitive list are as before the call.
C27_UnsupportedNoOps ==
    [][(StrokeStyled \/ FillEvenOdd \/ Clear) =>
          UNCHANGED << depth, layer, cur_transform, clip_stack, state_stack,
                       alpha_depth, primitives >>]_vars

\* A transparent fill has been recorded under an open save-point, and the
\* three calls can be made.
C27_Witness ==
    /\ depth = 1
    /\ Len(state_stack) = 1
    /\ Len(CurrentBucket.quads) = 1
    /\ ENABLED StrokeStyled
    /\ ENABLED FillEvenOdd
    /\ ENABLED Clear

\* C28.  finish() only reads the per-frame state: the layer buckets, the
\* depth counter, the alpha-layer index, the transform, the state and clip
\* stacks and the primitive list are as before, and it returns Ok, also with
\* save-points still open; a finish() that follows a finish() issues the
\* same sequence of pipeline invocations again.
C28_FinishReadOnly ==
    /\ [][Finish =>
              /\ UNCHANGED << layer, depth, alpha_depth, cur_transform, state_stack,
                              clip_stack, primitives >>
              /\ ret' = "Ok"
              /\ draw_calls' # <<>>]_vars
    /\ [](draw_calls # <<>> =>
              /\ finish(Ctx).draw_calls = draw_calls
              /\ finish(Ctx).layer = layer
              /\ finish(Ctx).ret = "Ok")

\* save(); draw_image(); finish() has run: the save-point is still open, the
\* image record is still in the layer, and Ok was returned.
C28_Witness ==
    /\ Len(state_stack) = 1
    /\ ret = "Ok"
    /\ draw_calls # <<>>
    /\ Len(CurrentBucket.atlas) = 1
    /\ \E i \in DOMAIN draw_calls :
          /\ draw_calls[i].cat = "atlas"
          /\ draw_calls[i].issued
          /\ draw_calls[i].instance_count = 1
    /\ ENABLED Finish

\* The clip value recorded when no clip is active.
NoClip == <<0, 0, 0, 0>>

\* The clips carried by the records and vertices of a layer: clips(l)[n] is
\* the clip of the n-th of them, category after category.
ClipsOf(records) == [i \in DOMAIN records |-> records[i].clip]

RecordedClips(l) ==
    LET b == IF HasBucket(l, alpha_depth) THEN l.transparent_layer[alpha_depth]
             ELSE TransparentLayer_new
    IN  << ClipsOf(l.quads), ClipsOf(l.triangles.vertices), ClipsOf(b.quads),
           ClipsOf(b.triangles.vertices), ClipsOf(b.blurred_quads), ClipsOf(b.atlas) >>

\* C29.  An instance or vertex recorded while the clip stack is not empty
\* carries a clip other than the no-clip value [0,0,0,0], also when nested
\* clips intersect to an empty rectangle; one recorded while the clip stack
\* is empty carries the no-clip value.
C29_ClipDistinguished ==
    [][\A n \in 1..6 :
          LET old == RecordedClips(layer)[n]
              new == RecordedClips(layer')[n]
          IN  (alpha_depth' = alpha_depth /\ Len(new) > Len(old)) =>
                  \A i \in (Len(old) + 1)..Len(new) :
                      new[i] = NoClip <=> clip_stack = <<>>]_vars

\* ------------------------------------------- claims on the proxy mainloop

IsReply(m) == m.kind \in {"Response", "Error"}

IsRequest(m) == m.kind = "Request"

\* The number of messages of a sequence that carry the id.
RECURSIVE CountId(_, _)
CountId(q, id) ==
    IF q = <<>> THEN 0
    ELSE (IF Head(q).id = id THEN 1 ELSE 0) + CountId(Tail(q), id)

\* C30.  The replies on the writer channel are, in order, one per result
\* the request handler has reported: Response(id, resp) for Ok and
\* Error(id, e) for Err, under the id of the request as it was received.
\* Every request received has one reply or is still with the handler, never
\* two replies; the reader thread itself sends nothing, so a notification
\* has no reply and a received Response or Error is not echoed: these go to
\* the core RPC handler, in order, under their own id.
C30_RepliesMatchRequests ==
    /\ [](/\ SelectSeq(writer_q, IsReply) =
                [i \in DOMAIN reported |->
                    IF reported[i].ok THEN Msg("Response", reported[i].id, "resp")
                                      ELSE Msg("Error", reported[i].id, "e")]
          /\ \A id \in RequestIds :
                CountId(SelectSeq(writer_q, IsReply), id)
                    + Cardinality({e \in pending : e.id = id})
                = CountId(SelectSeq(received, IsRequest), id)
          /\ LET answers == SelectSeq(received, IsReply)
             IN  core_handled =
                     [i \in DOMAIN answers |->
                         [id |-> answers[i].id, ok |-> answers[i].kind = "Response"]])
    /\ [][ReaderRecv => writer_q' = writer_q]_vars

\* Request(2, _), a notification and Response(1, _) were received, and the
\* handler reported Err for the request: the writer channel holds
\* Error(2, e) and nothing else, and the response went to the core handler.
C30_Witness ==
    /\ Len(received) = 3
    /\ \E i \in 1..3 : received[i] = Msg("Request", 2, "req")
    /\ \E i \in 1..3 : received[i] = Msg("Notification", 0, "n")
    /\ \E i \in 1..3 : received[i] = Msg("Response", 1, "resp")
    /\ writer_q = << Msg("Error", 2, "e") >>
    /\ core_handled = << [id |-> 1, ok |-> TRUE] >>
    /\ pending = {}
    /\ proxy_q = <<>>

\* C31.  When the input has ended (no sender of the reader channel is held
\* outside mainloop, and every queued message is processed, so that no
\* thread of the mainloop has a step left to take), the reader thread has
\* left its receive loop and called shutdown, and mainloop has returned.
C31_ShutsDownAtInputEnd ==
    (~peer_holds /\ reader_q = <<>> /\ ~ ENABLED NextShutdown) =>
        (reader_pc = "done" /\ main_pc = "returned")

\* ------------------------------------------------------- claims on kerning

\* C32.  kern() leaves the glyph order of the buffer as it found it: between
\* two subtables and at the return the glyphs stand in the order they had at
\* the call, for every list of subtable kinds, every direction and either
\* value of plan.requested_kerning.
C32_KernKeepsGlyphOrder ==
    kern_pc \in {"subtables", "done"} => GlyphsOf(kern_buffer) = kern_at_call

\* The turn of the loop reached state_machine_transition.
Transits(entry, end_entry) ==
    /\ IsSome(entry)
    /\ (kern_buffer.idx + 2 <= Len(kern_buffer.info) => IsSome(end_entry))

\* The positions before a turn, as they stand after it if it changed none:
\* a turn that leaves the loop of a backward buffer reverses the buffer.
PositionsKept ==
    kern_buffer'.pos = IF kern_pc' = "subtables" /\ is_backward(kern_buffer.direction)
                       THEN ReverseSeq(kern_buffer.pos)
                       ELSE kern_buffer.pos

\* C33.  The driver's stack depth is between 0 and 8 after any sequence of
\* transitions and every index the stack was read or written at is below 8;
\* a push onto a full stack sets the depth to 0 and writes nothing, and a
\* missing kerning value sets the depth to 0 and leaves every glyph position
\* as it was.
C33_StackWithinBounds ==
    /\ kern_driver.depth = 0
    /\ [](/\ kern_driver.depth \in 0..StackLen
          /\ kern_driver.used \subseteq 0..(StackLen - 1))
    /\ [][\A entry \in MachineEntries, end_entry \in EndEntriesAt(kern_buffer) :
            \A values \in KernValuesOf(entry) :
               LET e == Unwrap(entry)
                   full == e.push /\ kern_driver.depth = StackLen
                   missing == e.offset /\ values = <<>>
               IN  (/\ Transits(entry, end_entry)
                    /\ full \/ missing
                    /\ MachineStep(entry, end_entry, values)) =>
                       /\ full =>
                              /\ kern_driver'.depth = 0
                              /\ kern_driver'.stack = kern_driver.stack
                       /\ missing =>
                              /\ kern_driver'.depth = 0
                              /\ PositionsKept]_vars

\* The stack is full, every place of it written, and the loop goes on.
C33_Witness ==
    /\ kern_pc = "machine"
    /\ kern_driver.depth = StackLen
    /\ kern_driver.used = 0..(StackLen - 1)

\* What is left of the loop: the budget of operations above zero, and the
\* glyphs from the cursor on.
Remaining(b) == (IF b.max_ops > 0 THEN b.max_ops ELSE 0) + (Len(b.info) - b.idx)

\* C34.  The loop of apply_state_machine_kerning terminates: the cursor never
\* passes the end of the buffer, and every turn that stays in the loop takes
\* one from max_ops, moves the cursor on by one glyph once max_ops is at or
\* below zero, and so leaves less of the budget and the buffer than before.
C34_MachineLoopTerminates ==
    /\ kern_pc \in {"subtables", "machine"}
    /\ [](kern_pc = "machine" => kern_buffer.idx <= Len(kern_buffer.info))
    /\ [][(kern_pc = "machine" /\ kern_pc' = "machine") =>
            /\ kern_buffer'.max_ops = kern_buffer.max_ops - 1
            /\ (kern_buffer'.max_ops <= 0 => kern_buffer'.idx = kern_buffer.idx + 1)
            /\ Remaining(kern_buffer') < Remaining(kern_buffer)
            /\ Remaining(kern_buffer') >= 0]_vars

\* The budget ran out on a glyph the table's entries had not advanced past,
\* and the cursor has moved to the end of the buffer.
C34_Witness ==
    /\ kern_pc = "machine"
    /\ kern_buffer.max_ops = 0
    /\ kern_buffer.idx = Len(kern_buffer.info)
    /\ kern_driver.depth = StackLen

=============================================================================
